---------------------------- MODULE Spec2Model ----------------------------
(***************************************************************************)
(* Booking orchestration engine of the court reservation service:          *)
(*   - the reservation saga (app/reservation_service.py),                  *)
(*   - the job store and scheduler clock (app/scheduler_service.py),       *)
(*   - the identity lock and the API operations that take it               *)
(*     (app/session_manager.py, app/routes/reservations.py).               *)
(*                                                                         *)
(* Instants are integers counting minutes.  A backend reservation is a     *)
(* slot <<datetime, court>>; courts are numbered 1..4 (court_index + 1).   *)
(***************************************************************************)
EXTENDS Integers, Sequences, FiniteSets, TLC

VARIABLES
    sg_pc,           \* saga harness: "ready" | "done"
    sg_in,           \* saga harness: the arguments and the backend the call meets
    sg_out,          \* saga harness: what the call returned and left behind
    now,             \* datetime.now(), in minutes
    job_metadata,    \* SchedulerService.job_metadata : job_id -> record
    jobs_file,       \* contents of data/jobs/scheduled_jobs.json
    timers,          \* jobs held by the APScheduler job store
    invocations,     \* scheduler callbacks submitted to the thread pool
    api_ops,         \* API requests in progress
    locks,           \* SessionManager._locks: the locks created, and those held
    reservations,    \* backend: email -> set of slots the owner holds
    hist             \* history of what each job did (observation only)

vars == <<sg_pc, sg_in, sg_out, now, job_metadata, jobs_file, timers,
          invocations, api_ops, locks, reservations, hist>>

sagaVars  == <<sg_pc, sg_in, sg_out>>
schedVars == <<now, job_metadata, jobs_file, timers, invocations, api_ops,
               locks, reservations, hist>>

-----------------------------------------------------------------------------
(* Bounds of the model *)

MaxHours == 2        \* longest reservation, in hours
MaxJobs == 1         \* job records created in one behaviour
MaxInFlight == 2     \* scheduler callbacks in flight at once
MaxCrashes == 1      \* process restarts in one behaviour

(* Program constants *)

NumCourts == 4
MAX_RESERVATION_MINUTES == 21600
DEFAULT_MAX_RETRIES == 6
WATCH_INTERVAL == 30
HOUR == 60

Courts == 1..NumCourts

-----------------------------------------------------------------------------
(* Small helpers on sequences *)

SeqToSet(s) == {s[i] : i \in 1..Len(s)}

RECURSIVE Pow2(_)
Pow2(n) == IF n <= 0 THEN 1 ELSE 2 * Pow2(n - 1)

-----------------------------------------------------------------------------
(* The reservation saga: ReservationService.make_continuous_reservations   *)

(* itertools.combinations(range(4), num_courts): the strictly increasing   *)
(* tuples, in lexicographic order.                                         *)
IncreasingTuples(K) ==
    {s \in [1..K -> Courts] : \A i \in 1..(K - 1) : s[i] < s[i + 1]}

LexLess(a, b) ==
    \E i \in 1..Len(a) : a[i] < b[i] /\ \A j \in 1..(i - 1) : a[j] = b[j]

RECURSIVE SortLex(_)
SortLex(S) ==
    IF S = {} THEN <<>>
    ELSE LET m == CHOOSE x \in S : \A y \in S \ {x} : LexLess(x, y)
         IN  <<m>> \o SortLex(S \ {m})

combinations(K) == SortLex(IncreasingTuples(K))

is_sequential(combo) ==
    IF Len(combo) = 1 THEN TRUE
    ELSE \A i \in 1..(Len(combo) - 1) : combo[i + 1] - combo[i] = 1

not_sequential(combo) == ~is_sequential(combo)

(* The combinations in plain lexicographic order (mutant of the definition *)
(* below).                                                                 *)
sorted_combinations_plain(K) == combinations(K)

sorted_combinations(K) ==
    SelectSeq(combinations(K), is_sequential)
        \o SelectSeq(combinations(K), not_sequential)

(* The backend as one owner meets it:                                      *)
(*   taken       slots that cannot be booked (held by somebody else)       *)
(*   mine        slots the owner holds                                     *)
(*   auth        whether the credentials are accepted                      *)
(*   list_ok     whether the reservations page can be read                 *)
(*   cancel_fail slots whose cancellation request fails                    *)
Backend(taken, mine, auth, list_ok, cancel_fail) ==
    [taken |-> taken, mine |-> mine, auth |-> auth, list_ok |-> list_ok,
     cancel_fail |-> cancel_fail]

(* One single-hour, single-court booking request.  The backend refuses a   *)
(* court for an hour that overlaps a booking of that court.                *)
make_single_reservation(be, dt, court) ==
    LET ok == ~\E s \in be.taken \cup be.mine :
                  s[2] = court /\ s[1] - dt < HOUR /\ dt - s[1] < HOUR
    IN  [success  |-> ok,
         datetime |-> dt,
         court    |-> court,
         message  |-> IF ok THEN "" ELSE "rejected",
         backend  |-> IF ok THEN [be EXCEPT !.mine = @ \cup {<<dt, court>>}]
                      ELSE be]

Result(r) == [success |-> r.success, datetime |-> r.datetime,
              court |-> r.court, message |-> r.message]

(* The inner loop over the courts of one combination: book each court in   *)
(* turn, stop at the first that fails.  hour_results are the bookings made *)
(* by this attempt, calls the requests it sent.                            *)
RECURSIVE book_courts(_, _, _, _)

prepend_result(r, rest) ==
    [all_success  |-> rest.all_success,
     hour_results |-> <<Result(r)>> \o rest.hour_results,
     backend      |-> rest.backend,
     calls        |-> <<<<r.datetime, r.court>>>> \o rest.calls]

court_requested(r, be, dt, combo, i) ==
    IF r.success
    THEN prepend_result(r, book_courts(r.backend, dt, combo, i + 1))
    ELSE [all_success |-> FALSE, hour_results |-> <<>>, backend |-> be,
          calls |-> <<<<dt, combo[i]>>>>]

book_courts(be, dt, combo, i) ==
    IF i > Len(combo)
    THEN [all_success |-> TRUE, hour_results |-> <<>>, backend |-> be,
          calls |-> <<>>]
    ELSE court_requested(make_single_reservation(be, dt, combo[i]),
                         be, dt, combo, i)

(* The loop over sorted_combinations for one hour, from index k on.        *)
(* created are all the bookings made, kept or not.                         *)
RECURSIVE try_combinations(_, _, _, _)

prepend_attempt(a, rest) ==
    [rest EXCEPT !.created = a.hour_results \o @,
                 !.calls = a.calls \o @]

combination_tried(a, dt, combos, k) ==
    IF a.all_success
    THEN [hour_booked |-> TRUE, hour_results |-> a.hour_results,
          created |-> a.hour_results, backend |-> a.backend,
          calls |-> a.calls, last_used_courts |-> combos[k]]
    ELSE prepend_attempt(a, try_combinations(a.backend, dt, combos, k + 1))

try_combinations(be, dt, combos, k) ==
    IF k > Len(combos)
    THEN [hour_booked |-> FALSE, hour_results |-> <<>>, created |-> <<>>,
          backend |-> be, calls |-> <<>>, last_used_courts |-> <<>>]
    ELSE combination_tried(book_courts(be, dt, combos[k], 1), dt, combos, k)

(* One hour: the courts of the previous hour first, then the enumeration.  *)
after_preferred(pref, e, last_used_courts) ==
    [e EXCEPT !.created = pref.hour_results \o @,
              !.calls = pref.calls \o @,
              !.last_used_courts = IF e.hour_booked THEN @ ELSE last_used_courts]

preferred_tried(pref, dt, K, last_used_courts) ==
    IF pref.all_success
    THEN [hour_booked |-> TRUE, hour_results |-> pref.hour_results,
          created |-> pref.hour_results, backend |-> pref.backend,
          calls |-> pref.calls, last_used_courts |-> last_used_courts]
    ELSE after_preferred(pref,
                         try_combinations(pref.backend, dt,
                                          sorted_combinations(K), 1),
                         last_used_courts)

(* An hour that ignores the courts of the previous hour (mutant of the     *)
(* definition below).                                                      *)
book_hour_no_preference(be, dt, K, last_used_courts) ==
    try_combinations(be, dt, sorted_combinations(K), 1)

book_hour(be, dt, K, last_used_courts) ==
    IF last_used_courts # <<>>
    THEN preferred_tried(book_courts(be, dt, last_used_courts, 1), dt, K,
                         last_used_courts)
    ELSE try_combinations(be, dt, sorted_combinations(K), 1)

(* ReservationService._scrape_reservations: the owner's reservations, or   *)
(* nothing when the page cannot be read.                                   *)
_scrape_reservations(be) == IF be.list_ok THEN be.mine ELSE {}

(* A cleanup that gives up at the first cancellation that fails (mutant of  *)
(* _cleanup_unwanted_reservations).                                        *)
_cleanup_stops_at_failure(be, successful_results, all_created_reservations) ==
    IF successful_results = <<>> \/ all_created_reservations = <<>>
    THEN [backend |-> be, list_calls |-> 0, cancel_calls |-> {},
          cancelled |-> {}]
    ELSE LET to_cancel_ids ==
                 (_scrape_reservations(be)
                    \cap {<<r.datetime, r.court>> :
                              r \in SeqToSet(all_created_reservations)})
                    \ {<<r.datetime, r.court>> :
                              r \in SeqToSet(successful_results)}
             failing == to_cancel_ids \cap be.cancel_fail
         IN  IF failing # {}
             THEN [backend |-> be, list_calls |-> 1, cancel_calls |-> failing,
                   cancelled |-> {}]
             ELSE [backend |-> [be EXCEPT !.mine = @ \ to_cancel_ids],
                   list_calls |-> IF to_cancel_ids = {} THEN 0 ELSE 1,
                   cancel_calls |-> to_cancel_ids,
                   cancelled |-> to_cancel_ids]

(* A cleanup that reads the reservations page before it looks for anything *)
(* to cancel (mutant of _cleanup_unwanted_reservations).                   *)
_cleanup_lists_first(be, successful_results, all_created_reservations) ==
    IF successful_results = <<>> \/ all_created_reservations = <<>>
    THEN [backend |-> be, list_calls |-> 0, cancel_calls |-> {},
          cancelled |-> {}]
    ELSE LET to_cancel_ids ==
                 (_scrape_reservations(be)
                    \cap {<<r.datetime, r.court>> :
                              r \in SeqToSet(all_created_reservations)})
                    \ {<<r.datetime, r.court>> :
                              r \in SeqToSet(successful_results)}
         IN  [backend |-> [be EXCEPT !.mine = @ \ (to_cancel_ids \ be.cancel_fail)],
              list_calls |-> 1,
              cancel_calls |-> to_cancel_ids,
              cancelled |-> to_cancel_ids \ be.cancel_fail]

(* A cleanup that cancels every listed reservation outside the accepted     *)
(* plan (mutant of _cleanup_unwanted_reservations).                        *)
_cleanup_cancels_all_listed(be, successful_results, all_created_reservations) ==
    IF successful_results = <<>> \/ all_created_reservations = <<>>
    THEN [backend |-> be, list_calls |-> 0, cancel_calls |-> {},
          cancelled |-> {}]
    ELSE LET to_cancel_ids ==
                 _scrape_reservations(be)
                    \ {<<r.datetime, r.court>> :
                              r \in SeqToSet(successful_results)}
         IN  [backend |-> [be EXCEPT !.mine = @ \ (to_cancel_ids \ be.cancel_fail)],
              list_calls |-> 1,
              cancel_calls |-> to_cancel_ids,
              cancelled |-> to_cancel_ids \ be.cancel_fail]

(* A cleanup that cancels nothing (mutant of the definition below).        *)
_cleanup_skipped(be, successful_results, all_created_reservations) ==
    [backend |-> be, list_calls |-> 0, cancel_calls |-> {}, cancelled |-> {}]

(* ReservationService._cleanup_unwanted_reservations                       *)
_cleanup_unwanted_reservations(be, successful_results, all_created_reservations) ==
    LET none == [backend |-> be, list_calls |-> 0, cancel_calls |-> {},
                 cancelled |-> {}]
    IN
    IF successful_results = <<>> \/ all_created_reservations = <<>>
    THEN none
    ELSE
      LET successful_slots ==
              {<<r.datetime, r.court>> : r \in SeqToSet(successful_results)}
          to_cancel_by_slot ==
              {<<r.datetime, r.court>> : r \in SeqToSet(all_created_reservations)}
                  \ successful_slots
      IN
      IF to_cancel_by_slot = {}
      THEN none
      ELSE
        LET all_reservations == _scrape_reservations(be)
            to_cancel_ids == all_reservations \cap to_cancel_by_slot
            done == to_cancel_ids \ be.cancel_fail
        IN  IF all_reservations = {}
            THEN [none EXCEPT !.list_calls = 1]
            ELSE [backend |-> [be EXCEPT !.mine = @ \ done],
                  list_calls |-> 1,
                  cancel_calls |-> to_cancel_ids,
                  cancelled |-> done]

FailureResult(dt, msg) ==
    [success |-> FALSE, datetime |-> dt, court |-> 0, message |-> msg]

(* The loop over the hours, from hour index `hour` on.                     *)
RECURSIVE book_hours(_, _, _, _, _)

(* A merge that returns the abandoned bookings of the hour as well (mutant  *)
(* of the definition below).                                               *)
hour_merged_keeps_abandoned(st, h) ==
    [st EXCEPT !.backend = h.backend,
               !.all_created_reservations = @ \o h.created,
               !.calls = @ \o h.calls,
               !.last_used_courts = h.last_used_courts,
               !.results = @ \o h.created]

hour_merged(st, h) ==
    [st EXCEPT !.backend = h.backend,
               !.all_created_reservations = @ \o h.created,
               !.calls = @ \o h.calls,
               !.last_used_courts = h.last_used_courts,
               !.results = @ \o h.hour_results]

(* A loop that goes on to the later hours after an hour could not be       *)
(* booked (mutant of the definition below).                                *)
hour_tried_continues(st, h, start_datetime, hours, num_courts, hour) ==
    IF h.hour_booked
    THEN book_hours(hour_merged(st, h), start_datetime, hours, num_courts,
                    hour + 1)
    ELSE [book_hours(hour_merged(st, h), start_datetime, hours, num_courts,
                     hour + 1) EXCEPT
              !.booked_all = FALSE,
              !.failed_at = start_datetime + hour * HOUR]

hour_tried(st, h, start_datetime, hours, num_courts, hour) ==
    IF h.hour_booked
    THEN book_hours(hour_merged(st, h), start_datetime, hours, num_courts,
                    hour + 1)
    ELSE [hour_merged(st, h) EXCEPT
              !.booked_all = FALSE,
              !.failed_at = start_datetime + hour * HOUR]

book_hours(st, start_datetime, hours, num_courts, hour) ==
    IF hour >= hours
    THEN [st EXCEPT !.booked_all = TRUE]
    ELSE hour_tried(st,
                    book_hour(st.backend, start_datetime + hour * HOUR,
                              num_courts, st.last_used_courts),
                    start_datetime, hours, num_courts, hour)

(* what the call returns and leaves behind, given the state st after the   *)
(* hours loop and the outcome cl of the compensation pass                  *)
saga_result(st, cl) ==
    [results |-> IF st.booked_all THEN st.results
                 ELSE <<FailureResult(st.failed_at,
                                      "Could not find available courts")>>,
     backend |-> cl.backend,
     all_created_reservations |-> st.all_created_reservations,
     calls |-> st.calls,
     list_calls |-> cl.list_calls,
     cancel_calls |-> cl.cancel_calls,
     cancelled |-> cl.cancelled]

saga_finished(st) ==
    IF st.booked_all
    THEN saga_result(st, _cleanup_unwanted_reservations(
                             st.backend, st.results,
                             st.all_created_reservations))
    ELSE saga_result(st, _cleanup_unwanted_reservations(
                             st.backend, <<>>, st.all_created_reservations))

make_continuous_reservations(be, start_datetime, hours, num_courts) ==
    IF ~be.auth
    THEN [results |-> <<FailureResult(start_datetime, "Authentication failed")>>,
          backend |-> be, all_created_reservations |-> <<>>, calls |-> <<>>,
          list_calls |-> 0, cancel_calls |-> {}, cancelled |-> {}]
    ELSE saga_finished(
             book_hours([backend |-> be, results |-> <<>>,
                         all_created_reservations |-> <<>>, calls |-> <<>>,
                         last_used_courts |-> <<>>, booked_all |-> FALSE,
                         failed_at |-> start_datetime],
                        start_datetime, hours, num_courts, 0))

(* A success test that accepts any result list (mutant of the definition   *)
(* below).                                                                 *)
all_success_vacuous(results) == TRUE

(* all(r.get("success", False) for r in results) *)
all_success(results) == \A i \in 1..Len(results) : results[i].success

-----------------------------------------------------------------------------
(* Saga harness: one call of make_continuous_reservations on a backend      *)
(* drawn from a bounded family of availability patterns.                    *)

SagaStart == 10 * HOUR

SagaSlots(hours) == {<<SagaStart + h * HOUR, c>> : h \in 0..(hours - 1), c \in Courts}

(* reservations the owner already holds when the call starts *)
SagaPre == {{}, {<<SagaStart, 2>>, <<SagaStart - HOUR, 1>>}}

SagaInputs ==
    {[hours |-> n, num_courts |-> k, taken |-> t, pre |-> p, auth |-> a,
      list_ok |-> l, cancel_fail |-> cf] :
        n \in 1..MaxHours, k \in Courts, t \in SUBSET SagaSlots(MaxHours),
        p \in SagaPre, a \in BOOLEAN, l \in BOOLEAN,
        cf \in {{}, {<<SagaStart, 1>>}}}

NoSagaOutput ==
    [results |-> <<>>, backend |-> Backend({}, {}, TRUE, TRUE, {}),
     all_created_reservations |-> <<>>, calls |-> <<>>, list_calls |-> 0,
     cancel_calls |-> {}, cancelled |-> {}]

SagaCall ==
    /\ sg_pc = "ready"
    /\ sg_out' = make_continuous_reservations(
                     Backend(sg_in.taken, sg_in.pre, sg_in.auth, sg_in.list_ok,
                             sg_in.cancel_fail),
                     SagaStart, sg_in.hours, sg_in.num_courts)
    /\ sg_pc' = "done"
    /\ UNCHANGED <<sg_in, schedVars>>

-----------------------------------------------------------------------------
(* Job store and scheduler clock: SchedulerService                          *)

MaxTime == 95        \* the clock stops advancing here
MaxDown == 0         \* longest time the process stays down at a restart
FreeCourts == 2      \* courts other customers may leave free for a job

(* APScheduler job_defaults and executor size *)
MAX_INSTANCES == 3
MISFIRE_GRACE_MINUTES == 5
MAX_WORKERS == 5

NONE == 0 - 999999   \* stands for a key that is absent from a record

Emails == {"a"}
ReqTargets == {60, MAX_RESERVATION_MINUTES + 30}
ReqHours == {1}
ReqCourts == {1}
Downtimes == 0..MaxDown

ActiveStatuses == {"scheduled", "running", "retrying"}

JobSlots(dt, hours) == {<<dt + h * HOUR, c>> : h \in 0..(hours - 1), c \in Courts}

(* What other customers hold when a scheduler callback runs the saga:      *)
(* every court, or every court but the first FreeCourts.                   *)
TakenChoices(dt, hours) ==
    {JobSlots(dt, hours), {x \in JobSlots(dt, hours) : x[2] > FreeCourts}}

(* What other customers hold when an API request runs the saga: every      *)
(* court, or every court but the last.                                     *)
ApiTakenChoices(dt, hours) ==
    {JobSlots(dt, hours), {x \in JobSlots(dt, hours) : x[2] < NumCourts}}

OthersSlots(email) ==
    UNION {reservations[e] : e \in Emails \ {email}}

(* ReservationService.is_within_booking_window *)
is_within_booking_window(target_datetime) ==
    LET minutes_from_now == target_datetime - now
    IN  0 <= minutes_from_now /\ minutes_from_now <= MAX_RESERVATION_MINUTES

(* A run time one minute late (mutant of the definition below). *)
calculate_job_run_time_late(target_datetime) ==
    target_datetime - MAX_RESERVATION_MINUTES + 1

(* ReservationService.calculate_job_run_time *)
calculate_job_run_time(target_datetime) ==
    target_datetime - MAX_RESERVATION_MINUTES

(* next XX:00 or XX:30 strictly after the current minute *)
NextHalfHour(t) == (t \div WATCH_INTERVAL) * WATCH_INTERVAL + WATCH_INTERVAL

(* A linear backoff (mutant of the definition below). *)
RetryDelay_linear(retry_count) == retry_count + 1

(* delay_minutes = 2**retry_count *)
RetryDelay(retry_count) == Pow2(retry_count)

(* Giving up one retry early (mutant of the definition below). *)
ShouldRetry_early(retry_count, max_retries) == retry_count < max_retries - 1

(* if retry_count < max_retries *)
ShouldRetry(retry_count, max_retries) == retry_count < max_retries

(* Expiry only strictly after the target (mutant of the definition below). *)
target_elapsed_strict(reservation_datetime) == now > reservation_datetime

(* if datetime.now() >= reservation_datetime *)
target_elapsed(reservation_datetime) == now >= reservation_datetime

(* A timer is one entry of the APScheduler job store.  Its id is the job   *)
(* id (suffix 0) or "<job id>_retry_<n>" (suffix n).                       *)
Timer(job, suffix, func, trigger, next_run, retry_count) ==
    [job |-> job, suffix |-> suffix, func |-> func, trigger |-> trigger,
     next_run |-> next_run, retry_count |-> retry_count]

(* scheduler.add_job(..., id=..., replace_existing=True) *)
add_job(ts, t) ==
    {x \in ts : ~(x.job = t.job /\ x.suffix = t.suffix)} \cup {t}

(* scheduler.remove_job(job_id): only the entry whose id is the job id *)
remove_job(ts, job) ==
    {x \in ts : ~(x.job = job /\ x.suffix = 0)}

NewJobId == Cardinality(DOMAIN job_metadata) + 1

NoHist == [attempts |-> 0, delays |-> <<>>, booked |-> 0]

SchedInit ==
    /\ now = 0
    /\ job_metadata = <<>>
    /\ jobs_file = <<>>
    /\ timers = {}
    /\ invocations = {}
    /\ api_ops = {}
    /\ locks = [created |-> {}, held |-> {}]
    /\ reservations = [e \in Emails |-> {}]
    /\ hist = [jobs |-> <<>>, crashes |-> 0]

(* SchedulerService.schedule_reservation: the record it stores *)
OneTimeRecord(email, reservation_datetime, hours, num_courts) ==
    [job_type |-> "one-time", email |-> email, password |-> "pw",
     reservation_datetime |-> reservation_datetime,
     run_time |-> calculate_job_run_time(reservation_datetime),
     hours |-> hours, num_courts |-> num_courts, status |-> "scheduled",
     retry_count |-> 0, max_retries |-> DEFAULT_MAX_RETRIES,
     check_count |-> NONE, next_retry |-> NONE, results |-> <<>>,
     error |-> FALSE, unparsable |-> {}]

(* SchedulerService.schedule_cancellation_watcher: the record it stores *)
WatcherRecord(email, reservation_datetime, hours, num_courts) ==
    [job_type |-> "recurring", email |-> email, password |-> "pw",
     reservation_datetime |-> reservation_datetime,
     run_time |-> NextHalfHour(now),
     hours |-> hours, num_courts |-> num_courts, status |-> "scheduled",
     retry_count |-> NONE, max_retries |-> NONE,
     check_count |-> 0, next_retry |-> NONE, results |-> <<>>,
     error |-> FALSE, unparsable |-> {}]

(* Store a new record, save, and arm its timer. *)
ScheduleJob(rec, func, trigger) ==
    LET job_id == NewJobId
    IN  /\ Len(job_metadata) < MaxJobs
        /\ job_metadata' = job_metadata \o <<rec>>
        /\ jobs_file' = job_metadata'
        /\ timers' = add_job(timers,
                             Timer(job_id, 0, func, trigger, rec.run_time, 0))
        /\ hist' = [hist EXCEPT !.jobs = @ \o <<NoHist>>]

schedule_reservation(email, reservation_datetime, hours, num_courts) ==
    ScheduleJob(OneTimeRecord(email, reservation_datetime, hours, num_courts),
                "execute", "date")

schedule_cancellation_watcher(email, reservation_datetime, hours, num_courts) ==
    ScheduleJob(WatcherRecord(email, reservation_datetime, hours, num_courts),
                "check", "interval")

(* SchedulerService.cancel_job, for a job id that exists *)
cancel_job(job_id) ==
    /\ job_id \in DOMAIN job_metadata
    /\ job_metadata' = [job_metadata EXCEPT ![job_id].status = "cancelled"]
    /\ jobs_file' = job_metadata'
    /\ timers' = remove_job(timers, job_id)
    /\ UNCHANGED <<now, invocations, api_ops, locks, reservations, hist, sagaVars>>

(* A view that is the stored record itself (mutant of the definition        *)
(* below).                                                                  *)
_sanitize_keeps_all(job) == [view |-> job, job |-> job]

(* SchedulerService._sanitize_job_metadata: the view it returns and the     *)
(* record it was given, as the call leaves it.  The pop acts on a copy.     *)
_sanitize_job_metadata(job) ==
    LET sanitized == job
    IN  [view |-> [k \in DOMAIN sanitized \ {"password"} |-> sanitized[k]],
         job  |-> job]

(* the stored records as a call that sanitizes those of the set ids leaves  *)
(* them                                                                     *)
AfterViews(ids) ==
    [j \in DOMAIN job_metadata |->
        IF j \in ids THEN _sanitize_job_metadata(job_metadata[j]).job
        ELSE job_metadata[j]]

(* SchedulerService.get_job_status; the value returned goes to sg_out, an   *)
(* unknown id returns nothing                                               *)
get_job_status(job_id) ==
    /\ sg_out' =
          [views |-> IF job_id \in DOMAIN job_metadata
                     THEN <<_sanitize_job_metadata(job_metadata[job_id]).view>>
                     ELSE <<>>]
    /\ job_metadata' = AfterViews({job_id})
    /\ UNCHANGED <<sg_pc, sg_in, now, jobs_file, timers, invocations, api_ops,
                   locks, reservations, hist>>

(* SchedulerService.get_jobs_by_email *)
get_jobs_by_email(email) ==
    LET ids == {j \in DOMAIN job_metadata : job_metadata[j].email = email}
        selected == SelectSeq(job_metadata, LAMBDA job : job.email = email)
    IN  /\ sg_out' =
              [views |-> [n \in 1..Len(selected) |->
                             _sanitize_job_metadata(selected[n]).view]]
        /\ job_metadata' = AfterViews(ids)
        /\ UNCHANGED <<sg_pc, sg_in, now, jobs_file, timers, invocations,
                       api_ops, locks, reservations, hist>>

-----------------------------------------------------------------------------
(* API operations, each under the identity lock of its email               *)

(* The saga as one owner's operation runs it against the shared backend.   *)
RunSaga(email, dt, hours, num_courts, taken, auth) ==
    make_continuous_reservations(
        Backend(taken \cup OthersSlots(email), reservations[email], auth,
                TRUE, {}),
        dt, hours, num_courts)

LockFree(email) == email \notin locks.held

(* SessionManager.get_lock followed by lock.acquire() *)
AcquireLock(email) ==
    [created |-> locks.created \cup {email}, held |-> locks.held \cup {email}]

(* mutant: leaving the block does not release *)
ReleaseLock_skipped(email) == locks

ReleaseLock(email) == [locks EXCEPT !.held = @ \ {email}]

(* An exception leaves the `with lock:` block (here before the body has had
   an effect, as when get_service fails) and the route's handler turns it
   into an error response *)
ApiRaised ==
    UNCHANGED <<job_metadata, jobs_file, timers, hist, reservations>>

(* A request enters `with lock:` *)
ApiBegin(kind, email, dt, hours, num_courts) ==
    /\ LockFree(email)
    /\ locks' = AcquireLock(email)
    /\ api_ops' = api_ops \cup
           {[kind |-> kind, email |-> email, reservation_datetime |-> dt,
             hours |-> hours, num_courts |-> num_courts]}
    /\ UNCHANGED <<now, job_metadata, jobs_file, timers, invocations,
                   reservations, hist, sagaVars>>

(* POST /continuous: the body under the lock *)
ApiContinuous(op) ==
    /\ op \in api_ops /\ op.kind = "continuous"
    /\ api_ops' = api_ops \ {op}
    /\ locks' = ReleaseLock(op.email)
    /\ \/ ApiRaised
       \/ IF ~is_within_booking_window(op.reservation_datetime)
          THEN /\ schedule_reservation(op.email, op.reservation_datetime,
                                       op.hours, op.num_courts)
               /\ UNCHANGED reservations
          ELSE \E taken \in ApiTakenChoices(op.reservation_datetime, op.hours),
                  auth \in BOOLEAN :
                 LET r == RunSaga(op.email, op.reservation_datetime, op.hours,
                                  op.num_courts, taken, auth)
                 IN  /\ reservations' = [reservations EXCEPT ![op.email] = r.backend.mine]
                     /\ UNCHANGED <<job_metadata, jobs_file, timers, hist>>
    /\ UNCHANGED <<now, invocations, sagaVars>>

(* mutant: the watcher is armed whatever the immediate attempt returned *)
ApiWatch_always_arms(op) ==
    /\ op \in api_ops /\ op.kind = "watch"
    /\ api_ops' = api_ops \ {op}
    /\ locks' = ReleaseLock(op.email)
    /\ \/ ApiRaised
       \/ IF now >= op.reservation_datetime
          THEN UNCHANGED <<job_metadata, jobs_file, timers, hist, reservations>>
          ELSE \E taken \in ApiTakenChoices(op.reservation_datetime, op.hours),
                  auth \in BOOLEAN :
                 LET r == RunSaga(op.email, op.reservation_datetime, op.hours,
                                  op.num_courts, taken, auth)
                 IN  /\ reservations' = [reservations EXCEPT ![op.email] = r.backend.mine]
                     /\ schedule_cancellation_watcher(
                            op.email, op.reservation_datetime, op.hours,
                            op.num_courts)
    /\ UNCHANGED <<now, invocations, sagaVars>>

(* POST /watch-for-cancellations: the body under the lock *)
ApiWatch(op) ==
    /\ op \in api_ops /\ op.kind = "watch"
    /\ api_ops' = api_ops \ {op}
    /\ locks' = ReleaseLock(op.email)
    /\ \/ ApiRaised
       \/ IF now >= op.reservation_datetime
          THEN UNCHANGED <<job_metadata, jobs_file, timers, hist, reservations>>
          ELSE \E taken \in ApiTakenChoices(op.reservation_datetime, op.hours),
                  auth \in BOOLEAN :
                 LET r == RunSaga(op.email, op.reservation_datetime, op.hours,
                                  op.num_courts, taken, auth)
                 IN  /\ reservations' = [reservations EXCEPT ![op.email] = r.backend.mine]
                     /\ IF all_success(r.results)
                        THEN UNCHANGED <<job_metadata, jobs_file, timers, hist>>
                        ELSE schedule_cancellation_watcher(
                                 op.email, op.reservation_datetime, op.hours,
                                 op.num_courts)
    /\ UNCHANGED <<now, invocations, sagaVars>>

-----------------------------------------------------------------------------
(* The scheduler clock *)

Instances(job, suffix) ==
    Cardinality({i \in invocations : i.job = job /\ i.suffix = suffix})

FreeInst == CHOOSE n \in 1..MaxInFlight : \A i \in invocations : i.inst # n

(* A due timer is processed: its callback is submitted to the pool, unless *)
(* the run is later than the misfire grace time or the job already has     *)
(* max_instances callbacks in the pool.  A date trigger is then removed,   *)
(* an interval trigger moves to its next tick.                             *)
(* mutant: a date timer stays armed after it has fired *)
Fire_keeps_date_timer(t) ==
    /\ t \in timers
    /\ t.next_run <= now
    /\ Cardinality(invocations) < MaxInFlight
    /\ timers' = IF t.trigger = "date" THEN timers
                 ELSE (timers \ {t}) \cup
                          {[t EXCEPT !.next_run = @ + WATCH_INTERVAL]}
    /\ invocations' =
          IF now - t.next_run > MISFIRE_GRACE_MINUTES
               \/ Instances(t.job, t.suffix) >= MAX_INSTANCES
          THEN invocations
          ELSE invocations \cup
                 {[inst |-> FreeInst, job |-> t.job, suffix |-> t.suffix,
                   func |-> t.func, retry_count |-> t.retry_count,
                   pc |-> "queued", results |-> <<>>, raised |-> FALSE,
                   saw_cancelled |-> FALSE]}
    /\ UNCHANGED <<now, job_metadata, jobs_file, api_ops, locks, reservations,
                   hist, sagaVars>>

Fire(t) ==
    /\ t \in timers
    /\ t.next_run <= now
    /\ Cardinality(invocations) < MaxInFlight
    /\ timers' = IF t.trigger = "date" THEN timers \ {t}
                 ELSE (timers \ {t}) \cup
                          {[t EXCEPT !.next_run = @ + WATCH_INTERVAL]}
    /\ invocations' =
          IF now - t.next_run > MISFIRE_GRACE_MINUTES
               \/ Instances(t.job, t.suffix) >= MAX_INSTANCES
          THEN invocations
          ELSE invocations \cup
                 {[inst |-> FreeInst, job |-> t.job, suffix |-> t.suffix,
                   func |-> t.func, retry_count |-> t.retry_count,
                   pc |-> "queued", results |-> <<>>, raised |-> FALSE,
                   saw_cancelled |-> FALSE]}
    /\ UNCHANGED <<now, job_metadata, jobs_file, api_ops, locks, reservations,
                   hist, sagaVars>>

(* Time passes while the process is up: never beyond the next due timer.   *)
Instants ==
    {t.next_run : t \in timers}
        \cup {job_metadata[j].reservation_datetime : j \in DOMAIN job_metadata}
        \cup ReqTargets

Advance ==
    /\ \A t \in timers : t.next_run > now
    /\ \E t2 \in Instants :
          /\ t2 > now /\ t2 <= MaxTime
          /\ \A t \in timers : t2 <= t.next_run
          /\ now' = t2
    /\ UNCHANGED <<job_metadata, jobs_file, timers, invocations, api_ops,
                   locks, reservations, hist, sagaVars>>

-----------------------------------------------------------------------------
(* Scheduler callbacks.  Each runs in three steps: the entry (up to the    *)
(* first save), the saga, and the handling of the saga's results.          *)

Running == {i \in invocations : i.pc # "queued"}

Replace(i, j) == (invocations \ {i}) \cup {j}

max_retries_of(md) ==
    IF md.max_retries = NONE THEN DEFAULT_MAX_RETRIES ELSE md.max_retries

(* _execute_reservation_with_retry, entry *)
(* mutant: the stored count is the number of attempts, not of retries *)
ExecBegin_counts_attempts(i) ==
    /\ i \in invocations /\ i.func = "execute" /\ i.pc = "queued"
    /\ Cardinality(Running) < MAX_WORKERS
    /\ job_metadata' = [job_metadata EXCEPT ![i.job].status = "running",
                                            ![i.job].retry_count = i.retry_count + 1]
    /\ jobs_file' = job_metadata'
    /\ invocations' = Replace(i, [i EXCEPT !.pc = "saga",
                          !.saw_cancelled = (job_metadata[i.job].status = "cancelled")])
    /\ UNCHANGED <<now, timers, api_ops, locks, reservations, hist, sagaVars>>

ExecBegin(i) ==
    /\ i \in invocations /\ i.func = "execute" /\ i.pc = "queued"
    /\ Cardinality(Running) < MAX_WORKERS
    /\ job_metadata' = [job_metadata EXCEPT ![i.job].status = "running",
                                            ![i.job].retry_count = i.retry_count]
    /\ jobs_file' = job_metadata'
    /\ invocations' = Replace(i, [i EXCEPT !.pc = "saga",
                          !.saw_cancelled = (job_metadata[i.job].status = "cancelled")])
    /\ UNCHANGED <<now, timers, api_ops, locks, reservations, hist, sagaVars>>

(* service.make_continuous_reservations(...) inside either callback *)
SagaStep(i) ==
    /\ i \in invocations /\ i.pc = "saga"
    /\ LET md == job_metadata[i.job]
       IN  \/ /\ invocations' = Replace(i, [i EXCEPT !.pc = "finish", !.raised = TRUE])
              /\ UNCHANGED <<reservations, hist>>
           \/ \E taken \in TakenChoices(md.reservation_datetime, md.hours),
                 auth \in BOOLEAN :
                LET r == RunSaga(md.email, md.reservation_datetime, md.hours,
                                 md.num_courts, taken, auth)
                IN  /\ reservations' = [reservations EXCEPT ![md.email] = r.backend.mine]
                    /\ invocations' = Replace(i, [i EXCEPT !.pc = "finish",
                                                          !.results = r.results])
                    /\ hist' = [hist EXCEPT
                                  !.jobs[i.job].attempts = @ + 1,
                                  !.jobs[i.job].booked =
                                      IF all_success(r.results) THEN @ + 1 ELSE @]
    /\ UNCHANGED <<now, job_metadata, jobs_file, timers, api_ops, locks, sagaVars>>

(* _execute_reservation_with_retry, after the saga *)
ExecFinish(i) ==
    /\ i \in invocations /\ i.func = "execute" /\ i.pc = "finish"
    /\ invocations' = invocations \ {i}
    /\ LET md == job_metadata[i.job]
       IN  IF i.raised
           THEN /\ job_metadata' = [job_metadata EXCEPT ![i.job].status = "error",
                                                        ![i.job].error = TRUE]
                /\ UNCHANGED <<timers, hist>>
           ELSE IF all_success(i.results)
           THEN /\ job_metadata' = [job_metadata EXCEPT ![i.job].status = "completed",
                                                        ![i.job].results = i.results]
                /\ UNCHANGED <<timers, hist>>
           ELSE IF ShouldRetry(i.retry_count, max_retries_of(md))
           THEN LET next_run == now + RetryDelay(i.retry_count)
                IN  /\ timers' = add_job(timers,
                                   Timer(i.job, i.retry_count + 1, "execute",
                                         "date", next_run, i.retry_count + 1))
                    /\ job_metadata' = [job_metadata EXCEPT
                                          ![i.job].status = "retrying",
                                          ![i.job].next_retry = next_run]
                    /\ hist' = [hist EXCEPT !.jobs[i.job].delays =
                                                Append(@, next_run - now)]
           ELSE /\ job_metadata' = [job_metadata EXCEPT ![i.job].status = "failed",
                                                        ![i.job].results = i.results]
                /\ UNCHANGED <<timers, hist>>
    /\ jobs_file' = job_metadata'
    /\ UNCHANGED <<now, api_ops, locks, reservations, sagaVars>>

(* _check_and_book_if_available, entry *)
CheckBegin(i) ==
    /\ i \in invocations /\ i.func = "check" /\ i.pc = "queued"
    /\ Cardinality(Running) < MAX_WORKERS
    /\ LET md == job_metadata[i.job]
       IN  IF md.status = "cancelled"
           THEN /\ timers' = remove_job(timers, i.job)
                /\ invocations' = invocations \ {i}
                /\ UNCHANGED <<job_metadata, jobs_file>>
           ELSE IF target_elapsed(md.reservation_datetime)
           THEN /\ job_metadata' = [job_metadata EXCEPT ![i.job].status = "expired"]
                /\ jobs_file' = job_metadata'
                /\ timers' = remove_job(timers, i.job)
                /\ invocations' = invocations \ {i}
           ELSE /\ job_metadata' = [job_metadata EXCEPT
                                      ![i.job].check_count = @ + 1,
                                      ![i.job].status = "running"]
                /\ jobs_file' = job_metadata'
                /\ invocations' = Replace(i, [i EXCEPT !.pc = "saga"])
                /\ UNCHANGED timers
    /\ UNCHANGED <<now, api_ops, locks, reservations, hist, sagaVars>>

(* _check_and_book_if_available, after the saga *)
CheckFinish(i) ==
    /\ i \in invocations /\ i.func = "check" /\ i.pc = "finish"
    /\ invocations' = invocations \ {i}
    /\ IF i.raised
       THEN /\ job_metadata' = [job_metadata EXCEPT ![i.job].status = "scheduled",
                                                    ![i.job].error = TRUE]
            /\ UNCHANGED timers
       ELSE IF all_success(i.results)
       THEN /\ job_metadata' = [job_metadata EXCEPT ![i.job].status = "completed",
                                                    ![i.job].results = i.results]
            /\ timers' = remove_job(timers, i.job)
       ELSE /\ job_metadata' = [job_metadata EXCEPT ![i.job].status = "scheduled"]
            /\ UNCHANGED timers
    /\ jobs_file' = job_metadata'
    /\ UNCHANGED <<now, api_ops, locks, reservations, hist, sagaVars>>

-----------------------------------------------------------------------------
(* Restart: the process dies, stays down for a while, and the constructor  *)
(* runs _load_jobs on the file.                                            *)

(* A stored record is a record of the file as json.load returns it: a key   *)
(* the file lacks reads as NONE (as "" for email), and unparsable names the *)
(* datetime keys whose text datetime.fromisoformat rejects.                 *)

(* datetime.fromisoformat(metadata.get("reservation_datetime")) raises *)
TargetUnreadable(md) ==
    md.reservation_datetime = NONE \/ "reservation_datetime" \in md.unparsable

(* not all([email, password, reservation_datetime, hours]) *)
Incomplete(md) == md.email = "" \/ md.password = "" \/ md.hours \in {NONE, 0}

(* metadata.get("run_time") or metadata.get("next_retry") *)
StoredRunTime(md) == IF md.run_time # NONE THEN md.run_time ELSE md.next_retry

(* datetime.fromisoformat raises on the run time the branch of md reads *)
RunTimeUnreadable(md) ==
    "run_time" \in md.unparsable
       \/ (md.job_type = "recurring" /\ md.run_time = NONE)

(* the record _load_jobs leaves for one stored record, at instant t *)
LoadedRecord(md, t) ==
    IF md.status \notin ActiveStatuses \/ Incomplete(md) THEN md
    ELSE IF md.job_type = "one-time"
    THEN IF StoredRunTime(md) = NONE THEN md
         ELSE IF RunTimeUnreadable(md)
              THEN [md EXCEPT !.status = "error", !.error = TRUE]
              ELSE md
    ELSE IF ~(t < md.reservation_datetime)
         THEN [md EXCEPT !.status = "expired"]
         ELSE IF RunTimeUnreadable(md)
              THEN [md EXCEPT !.status = "error", !.error = TRUE]
              ELSE md

(* the timers _load_jobs arms for one stored record, at instant t *)
LoadedTimers(job_id, md, t) ==
    IF md.status \notin ActiveStatuses \/ Incomplete(md) THEN {}
    ELSE IF md.job_type = "one-time"
    THEN IF StoredRunTime(md) = NONE \/ RunTimeUnreadable(md) THEN {}
         ELSE IF StoredRunTime(md) > t
              THEN {Timer(job_id, 0, "execute", "date", StoredRunTime(md),
                          md.retry_count)}
              ELSE {}
    ELSE IF t < md.reservation_datetime /\ ~RunTimeUnreadable(md)
         THEN {Timer(job_id, 0, "check", "interval",
                     IF md.run_time > t THEN md.run_time ELSE t, 0)}
         ELSE {}

(* SchedulerService._load_jobs at instant t.  The target of an active       *)
(* record is parsed outside the try block: when that raises, the exception  *)
(* leaves _load_jobs and the constructor, nothing is saved and the          *)
(* scheduler is never started.                                              *)
_load_jobs(file, t) ==
    IF \E j \in DOMAIN file :
          file[j].status \in ActiveStatuses /\ TargetUnreadable(file[j])
    THEN [metadata |-> file, timers |-> {}, aborted |-> TRUE]
    ELSE [metadata |-> [j \in DOMAIN file |-> LoadedRecord(file[j], t)],
          timers   |-> UNION {LoadedTimers(j, file[j], t) : j \in DOMAIN file},
          aborted  |-> FALSE]

Restart(down) ==
    /\ hist.crashes < MaxCrashes
    /\ now + down <= MaxTime
    /\ now' = now + down
    /\ LET l == _load_jobs(jobs_file, now + down)
       IN  /\ job_metadata' = l.metadata
           /\ jobs_file' = IF l.aborted THEN jobs_file ELSE l.metadata
           /\ timers' = l.timers
    /\ invocations' = {}
    /\ api_ops' = {}
    /\ locks' = [created |-> {}, held |-> {}]
    /\ hist' = [hist EXCEPT !.crashes = @ + 1]
    /\ UNCHANGED <<reservations, sagaVars>>

-----------------------------------------------------------------------------
(* Specifications *)

Init ==
    /\ SchedInit
    /\ sg_pc = "off"
    /\ sg_in = [hours |-> 1, num_courts |-> 1, taken |-> {}, pre |-> {},
                auth |-> TRUE, list_ok |-> TRUE, cancel_fail |-> {}]
    /\ sg_out = NoSagaOutput

Next ==
    \/ \E kind \in {"continuous", "watch"}, email \in Emails,
          dt \in ReqTargets, hours \in ReqHours, num_courts \in ReqCourts :
            ApiBegin(kind, email, dt, hours, num_courts)
    \/ \E op \in api_ops : ApiContinuous(op)
    \/ \E op \in api_ops : ApiWatch(op)
    \/ \E j \in DOMAIN job_metadata : cancel_job(j)
    \/ \E t \in timers : Fire(t)
    \/ Advance
    \/ \E i \in invocations : ExecBegin(i)
    \/ \E i \in invocations : SagaStep(i)
    \/ \E i \in invocations : ExecFinish(i)
    \/ \E i \in invocations : CheckBegin(i)
    \/ \E i \in invocations : CheckFinish(i)
    \/ \E down \in Downtimes : Restart(down)

Spec == Init /\ [][Next]_vars

(* The request thread that holds a lock keeps running: the server's thread
   for a request is not starved, so a body that can finish does finish *)
LockSpec ==
    /\ Init /\ [][Next]_vars
    /\ WF_vars(\E op \in api_ops : ApiContinuous(op))
    /\ WF_vars(\E op \in api_ops : ApiWatch(op))

SagaInit ==
    /\ SchedInit
    /\ sg_pc = "ready"
    /\ sg_in \in SagaInputs
    /\ sg_out = NoSagaOutput

SagaNext == SagaCall

SagaSpec == SagaInit /\ [][SagaNext]_vars

(* The job store across a start of the process: the file holds what an      *)
(* earlier run of the program saved, the constructor runs _load_jobs, and    *)
(* requests to POST /continuous follow.                                      *)

(* instants at which the process starts *)
StartInstants ==
    {0, 30, 31, 32, 45, 60, 90, MAX_RESERVATION_MINUTES + 30,
     MAX_RESERVATION_MINUTES + 100}

(* targets of the requests *)
StoreTargets ==
    {60, MAX_RESERVATION_MINUTES, MAX_RESERVATION_MINUTES + 30,
     MAX_RESERVATION_MINUTES + 31, MAX_RESERVATION_MINUTES + 90,
     2 * MAX_RESERVATION_MINUTES + 45}

(* One-time records as _execute_reservation_with_retry leaves them, with    *)
(* the instant of their last save: <<status, retry_count, next_retry,       *)
(* saved_at>> for a job whose run_time is minute 30.                        *)
OneTimeHistories ==
    {<<"scheduled", 0, NONE, 0>>, <<"running", 0, NONE, 30>>,
     <<"retrying", 0, 31, 30>>, <<"running", 1, 31, 31>>,
     <<"retrying", 1, 33, 31>>, <<"completed", 0, NONE, 30>>,
     <<"cancelled", 0, NONE, 0>>, <<"error", 0, NONE, 30>>}

(* Watcher records as _check_and_book_if_available leaves them:             *)
(* <<status, check_count, saved_at>> for a watcher of target minute 60      *)
(* whose first tick is minute 30.                                           *)
WatcherHistories ==
    {<<"scheduled", 0, 0>>, <<"running", 1, 30>>, <<"scheduled", 1, 30>>,
     <<"completed", 1, 30>>, <<"cancelled", 0, 0>>, <<"expired", 1, 60>>}

StoredOneTime(h) ==
    [OneTimeRecord("a", MAX_RESERVATION_MINUTES + 30, 1, 1) EXCEPT
        !.status = h[1], !.retry_count = h[2], !.next_retry = h[3]]

StoredWatcher(h) ==
    [WatcherRecord("a", 60, 1, 1) EXCEPT
        !.run_time = WATCH_INTERVAL, !.status = h[1], !.check_count = h[2]]

(* Records of a file that was edited or cut short outside the process: a    *)
(* scheduled record with one key missing or one datetime unparsable.        *)
DamagedRecords ==
    LET o == StoredOneTime(<<"scheduled", 0, NONE, 0>>)
        w == [StoredWatcher(<<"scheduled", 0, 0>>) EXCEPT
                 !.reservation_datetime = MAX_RESERVATION_MINUTES + 30]
    IN  {[o EXCEPT !.reservation_datetime = NONE],
         [o EXCEPT !.unparsable = {"reservation_datetime"}],
         [o EXCEPT !.run_time = NONE],
         [o EXCEPT !.unparsable = {"run_time"}],
         [o EXCEPT !.email = ""],
         [o EXCEPT !.hours = NONE],
         [w EXCEPT !.reservation_datetime = NONE],
         [w EXCEPT !.run_time = NONE],
         [w EXCEPT !.unparsable = {"run_time"}],
         [w EXCEPT !.email = ""]}

(* the files the process may find, each with the instant of its last save *)
StoredFiles ==
    {<< <<>>, 0 >>}
       \cup {<< <<StoredOneTime(h)>>, h[4] >> : h \in OneTimeHistories}
       \cup {<< <<StoredWatcher(h)>>, h[3] >> : h \in WatcherHistories}
       \cup {<< <<d>>, 0 >> : d \in DamagedRecords}
       \cup {<< <<d, StoredWatcher(<<"scheduled", 0, 0>>)>>, 0 >> :
                 d \in DamagedRecords}

StoreInit ==
    /\ now \in StartInstants
    /\ \E f \in StoredFiles :
          /\ f[2] <= now
          /\ jobs_file = f[1]
          /\ hist = [jobs |-> [j \in DOMAIN f[1] |-> NoHist], crashes |-> 0]
    /\ job_metadata = <<>>
    /\ timers = {}
    /\ invocations = {}
    /\ api_ops = {}
    /\ locks = [created |-> {}, held |-> {}]
    /\ reservations = [e \in Emails |-> {}]
    /\ sg_pc = "down"
    /\ sg_in = [hours |-> 1, num_courts |-> 1, taken |-> {}, pre |-> {},
                auth |-> TRUE, list_ok |-> TRUE, cancel_fail |-> {}]
    /\ sg_out = NoSagaOutput

(* SchedulerService.__init__: job_metadata = {}, then _load_jobs *)
Startup ==
    /\ sg_pc = "down"
    /\ LET l == _load_jobs(jobs_file, now)
       IN  /\ sg_pc' = IF l.aborted THEN "aborted" ELSE "up"
           /\ job_metadata' = l.metadata
           /\ jobs_file' = IF l.aborted THEN jobs_file ELSE l.metadata
           /\ timers' = l.timers
    /\ UNCHANGED <<sg_in, sg_out, now, invocations, api_ops, locks,
                   reservations, hist>>

StoreNext ==
    \/ Startup
    \/ /\ sg_pc = "up"
       /\ \E email \in Emails, dt \in StoreTargets, hours \in ReqHours,
             num_courts \in ReqCourts :
               ApiBegin("continuous", email, dt, hours, num_courts)
    \/ /\ sg_pc = "up"
       /\ \E op \in api_ops : ApiContinuous(op)
    \/ /\ sg_pc = "up"
       /\ \E job_id \in 1..(MaxJobs + 1) : get_job_status(job_id)
    \/ /\ sg_pc = "up"
       /\ \E email \in Emails : get_jobs_by_email(email)

StoreSpec == StoreInit /\ [][StoreNext]_vars

-----------------------------------------------------------------------------
(* The search routes: POST /continuous with a time window and               *)
(* POST /find-slot, one request against one backend.                        *)

MaxWait == 2         \* longest time a request spends before its search

DAY == 24 * HOUR

SEARCH_STEP == 30    \* current_slot += timedelta(minutes=30)
MAX_ATTEMPTS == 15   \* max_attempts

(* midnight of the day of instant t: strftime("%d-%m-%Y") parsed back *)
DayOf(t) == (t \div DAY) * DAY

(* utils.parse_date_time: the date at the time of day *)
parse_date_time(date, time) == DayOf(date) + time

(* A latest start one step early (mutant of the definition below). *)
latest_start_early(search_end, hours) ==
    search_end - hours * HOUR - SEARCH_STEP

(* latest_start = search_end - timedelta(hours=hours) *)
latest_start(search_end, hours) == search_end - hours * HOUR

(* if results and all(r.get("success", False) for r in results) *)
found(results) == results # <<>> /\ all_success(results)

(* The while loop of find_slot_in_time_window; tried lists the attempts     *)
(* made, each with the results its saga returned.                           *)
RECURSIVE window_search(_, _, _, _, _, _)

slot_tried(r, current_slot, latest, hours, num_courts, tried) ==
    IF found(r.results)
    THEN [results |-> r.results, backend |-> r.backend,
          tried   |-> Append(tried, [slot |-> current_slot,
                                     results |-> r.results])]
    ELSE window_search(r.backend, current_slot + SEARCH_STEP, latest, hours,
                       num_courts,
                       Append(tried, [slot |-> current_slot,
                                      results |-> r.results]))

window_search(be, current_slot, latest, hours, num_courts, tried) ==
    IF current_slot <= latest
    THEN slot_tried(make_continuous_reservations(be, current_slot, hours,
                                                 num_courts),
                    current_slot, latest, hours, num_courts, tried)
    ELSE [results |-> <<>>, backend |-> be, tried |-> tried]

(* ReservationService.find_slot_in_time_window *)
find_slot_in_time_window(be, date, start_time, end_time, hours, num_courts) ==
    LET search_start == DayOf(date) + start_time
        search_end == DayOf(date) + end_time
    IN  window_search(be, search_start, latest_start(search_end, hours),
                      hours, num_courts, <<>>)

(* one saga at the exact start time, in the shape of a search *)
exact_attempt(r, dt) ==
    [results |-> r.results, backend |-> r.backend,
     tried |-> <<[slot |-> dt, results |-> r.results]>>]

(* if request.end_time: find_slot_in_time_window(...) else the saga *)
attempt_on(be, dt, req) ==
    IF req.end_time # NONE
    THEN find_slot_in_time_window(be, dt, req.start_time, req.end_time,
                                  req.hours, req.num_courts)
    ELSE exact_attempt(
             make_continuous_reservations(be, dt, req.hours, req.num_courts),
             dt)

(* ReservationResponse: the error flag and the stats *)
Response(error, successful, failed, scheduled) ==
    [error |-> error, successful |-> successful, failed |-> failed,
     scheduled |-> scheduled]

successful_count(results) ==
    Cardinality({n \in DOMAIN results : results[n].success})

(* the response of POST /continuous to the results of its attempt *)
continuous_response(results) ==
    LET successful == successful_count(results)
        failed == Len(results) - successful
    IN  Response(failed > 0, successful, failed, 0)

(* The while loop of find_available_slot; days lists the day-attempts made. *)
RECURSIVE day_search(_, _, _, _, _)

day_tried(r, req, current_datetime, attempt, days) ==
    IF found(r.results)
    THEN [outcome |-> "booked", results |-> r.results, backend |-> r.backend,
          days |-> Append(days, [day |-> current_datetime,
                                 results |-> r.results]),
          target |-> current_datetime,
          response |-> Response(FALSE, Len(r.results), 0, 0)]
    ELSE day_search(r.backend, req, current_datetime + DAY, attempt + 1,
                    Append(days, [day |-> current_datetime,
                                  results |-> r.results]))

day_search(be, req, current_datetime, attempt, days) ==
    IF ~(attempt < MAX_ATTEMPTS)
    THEN [outcome |-> "exhausted", results |-> <<>>, backend |-> be,
          days |-> days, target |-> current_datetime,
          response |-> Response(TRUE, 0, 1, 0)]
    ELSE IF ~is_within_booking_window(current_datetime)
    THEN [outcome |-> "scheduled", results |-> <<>>, backend |-> be,
          days |-> days, target |-> current_datetime,
          response |-> Response(FALSE, 0, 0, 1)]
    ELSE day_tried(attempt_on(be, current_datetime, req), req,
                   current_datetime, attempt, days)

(* instants at which the request arrives; day 0 starts at minute 0 *)
SearchInstants == {0, 600, 629, 631}

(* others' bookings inside the window 09:30-12:30 of day 0 *)
WindowTaken ==
    {{<<t, c>> : t \in T, c \in C} :
        T \in SUBSET {570, 600, 630, 660, 690}, C \in {Courts, {2, 3, 4}}}

(* others' bookings at 10:30 and 11:30 of every day but the free ones *)
DaysTaken ==
    {{<<d * DAY + t, c>> : d \in (0..16) \ F, t \in {630, 690}, c \in Courts} :
        F \in {{}, {0}, {1}, {2}, {1, 2}, {14}, {15}, {16}}}

(* The requests the validators of Route1Request and Route2Request accept:   *)
(* times on the half hour, a window that is long enough, 1 to 4 courts.     *)
SearchInputs ==
    {r \in [kind : {"continuous"}, email : Emails, date : {0},
            start_time : {570}, end_time : {NONE, 630, 690, 750},
            hours : {1, 2}, num_courts : {1, 2}, taken : WindowTaken,
            auth : BOOLEAN] :
        r.end_time # NONE => r.end_time - r.start_time >= r.hours * HOUR}
      \cup [kind : {"find-slot"}, email : Emails, date : {NONE, 20 * DAY},
            start_time : {630}, end_time : {NONE, 750}, hours : {1},
            num_courts : {1, 2}, taken : DaysTaken, auth : BOOLEAN]

NoSearchOutput ==
    [outcome |-> "none", requested_at |-> 0, results |-> <<>>,
     tried |-> <<>>, days |-> <<>>, target |-> 0,
     response |-> Response(FALSE, 0, 0, 0)]

SearchInit ==
    /\ now \in SearchInstants
    /\ job_metadata = <<>>
    /\ jobs_file = <<>>
    /\ timers = {}
    /\ invocations = {}
    /\ api_ops = {}
    /\ locks = [created |-> {}, held |-> {}]
    /\ reservations = [e \in Emails |-> {}]
    /\ hist = [jobs |-> <<>>, crashes |-> 0]
    /\ sg_pc = "idle"
    /\ sg_in \in SearchInputs
    /\ sg_out = NoSearchOutput

SearchBackend(email) ==
    Backend(sg_in.taken, reservations[email], sg_in.auth, TRUE, {})

(* POST /continuous (routes/reservations.py, make_continuous_reservations), *)
(* the whole request under the identity lock                                *)
Continuous ==
    /\ sg_pc = "idle" /\ sg_in.kind = "continuous"
    /\ LockFree(sg_in.email)
    /\ locks' = [AcquireLock(sg_in.email) EXCEPT !.held = @ \ {sg_in.email}]
    /\ sg_pc' = "done"
    /\ LET reservation_datetime == parse_date_time(sg_in.date, sg_in.start_time)
       IN  IF ~is_within_booking_window(reservation_datetime)
           THEN /\ schedule_reservation(sg_in.email, reservation_datetime,
                                        sg_in.hours, sg_in.num_courts)
                /\ sg_out' = [NoSearchOutput EXCEPT
                                 !.outcome = "scheduled",
                                 !.requested_at = now,
                                 !.target = reservation_datetime,
                                 !.response = Response(FALSE, 0, 0, 1)]
                /\ UNCHANGED reservations
           ELSE LET s == attempt_on(SearchBackend(sg_in.email),
                                    reservation_datetime, sg_in)
                IN  /\ sg_out' = [NoSearchOutput EXCEPT
                                     !.outcome = "attempted",
                                     !.requested_at = now,
                                     !.results = s.results,
                                     !.tried = s.tried,
                                     !.target = reservation_datetime,
                                     !.response = continuous_response(s.results)]
                    /\ reservations' = [reservations EXCEPT
                                           ![sg_in.email] = s.backend.mine]
                    /\ UNCHANGED <<job_metadata, jobs_file, timers, hist>>
    /\ UNCHANGED <<sg_in, now, invocations, api_ops>>

(* POST /find-slot up to `with lock:`: the anchor of the search *)
FindSlotBegin ==
    /\ sg_pc = "idle" /\ sg_in.kind = "find-slot"
    /\ LockFree(sg_in.email)
    /\ LET parsed == parse_date_time(IF sg_in.date # NONE THEN sg_in.date
                                     ELSE now, sg_in.start_time)
           current_datetime == IF sg_in.date = NONE /\ parsed < now
                               THEN parsed + DAY ELSE parsed
       IN  api_ops' = {[kind |-> "find-slot", email |-> sg_in.email,
                        reservation_datetime |-> current_datetime,
                        hours |-> sg_in.hours, num_courts |-> sg_in.num_courts]}
    /\ locks' = AcquireLock(sg_in.email)
    /\ sg_pc' = "anchored"
    /\ sg_out' = [NoSearchOutput EXCEPT !.requested_at = now]
    /\ UNCHANGED <<sg_in, now, job_metadata, jobs_file, timers, invocations,
                   reservations, hist>>

(* time passes while the request obtains the lock and its session *)
FindSlotWait ==
    /\ sg_pc = "anchored"
    /\ now < sg_out.requested_at + MaxWait
    /\ now' = now + 1
    /\ UNCHANGED <<sagaVars, job_metadata, jobs_file, timers, invocations,
                   api_ops, locks, reservations, hist>>

(* POST /find-slot: the day loop under the lock *)
FindSlot(op) ==
    /\ sg_pc = "anchored" /\ op \in api_ops /\ op.kind = "find-slot"
    /\ api_ops' = api_ops \ {op}
    /\ locks' = ReleaseLock(op.email)
    /\ sg_pc' = "done"
    /\ LET s == day_search(SearchBackend(op.email), sg_in,
                           op.reservation_datetime, 0, <<>>)
       IN  /\ sg_out' = [sg_out EXCEPT
                            !.outcome = s.outcome, !.results = s.results,
                            !.days = s.days, !.target = s.target,
                            !.response = s.response]
           /\ reservations' = [reservations EXCEPT ![op.email] = s.backend.mine]
           /\ IF s.outcome = "scheduled"
              THEN schedule_reservation(op.email, s.target, op.hours,
                                        op.num_courts)
              ELSE UNCHANGED <<job_metadata, jobs_file, timers, hist>>
    /\ UNCHANGED <<sg_in, now, invocations>>

SearchNext ==
    \/ Continuous
    \/ FindSlotBegin
    \/ FindSlotWait
    \/ \E op \in api_ops : FindSlot(op)

SearchSpec == SearchInit /\ [][SearchNext]_vars

-----------------------------------------------------------------------------
(* The job table and its file under concurrent writers.  Every step of the  *)
(* job store updates job_metadata and then calls _save_jobs; nothing        *)
(* serializes the callers, which run on the scheduler's worker threads and  *)
(* on the API's threads.                                                    *)

MaxChecks == 2       \* ticks a watcher starts

(* a file left with the tail of a longer dump behind a shorter one *)
Unreadable == <<[unreadable |-> TRUE]>>

PersistInit ==
    /\ now = 0
    /\ job_metadata = <<OneTimeRecord("a", MAX_RESERVATION_MINUTES + 30, 1, 1),
                        WatcherRecord("a", MAX_RESERVATION_MINUTES + 30, 1, 1)>>
    /\ jobs_file = job_metadata
    /\ timers = {Timer(1, 0, "execute", "date", 30, 0),
                 Timer(2, 0, "check", "interval", 30, 0)}
    /\ invocations = {}
    /\ api_ops = {}
    /\ locks = [created |-> {}, held |-> {}]
    /\ reservations = [e \in Emails |-> {}]
    /\ hist = [jobs |-> <<NoHist, NoHist>>, crashes |-> 0]
    /\ sg_pc = "off"
    /\ sg_in = [hours |-> 1, num_courts |-> 1, taken |-> {}, pre |-> {},
                auth |-> TRUE, list_ok |-> TRUE, cancel_fail |-> {}]
    /\ sg_out = NoSagaOutput

(* a caller has updated the table and is about to save *)
Writer(func, job) ==
    [inst |-> FreeInst, func |-> func, job |-> job, pc |-> "updated",
     buffer |-> <<>>]

(* cancel_job, the update of the table (lines 271-272) *)
CancelUpdate(job_id) ==
    /\ Cardinality(invocations) < MaxInFlight
    /\ job_id \in DOMAIN job_metadata
    /\ job_metadata' = [job_metadata EXCEPT ![job_id].status = "cancelled"]
    /\ invocations' = invocations \cup {Writer("cancel_job", job_id)}
    /\ UNCHANGED <<now, jobs_file, timers, api_ops, locks, reservations, hist,
                   sagaVars>>

(* _execute_reservation_with_retry, the update at entry (lines 166-169) *)
ExecUpdate(job_id) ==
    /\ Cardinality(invocations) < MaxInFlight
    /\ job_id \in DOMAIN job_metadata
    /\ job_metadata[job_id].job_type = "one-time"
    /\ job_metadata' = [job_metadata EXCEPT ![job_id].status = "running",
                                            ![job_id].retry_count = 0]
    /\ invocations' = invocations \cup {Writer("execute", job_id)}
    /\ UNCHANGED <<now, jobs_file, timers, api_ops, locks, reservations, hist,
                   sagaVars>>

(* _check_and_book_if_available, the update at entry (lines 340-365) *)
CheckUpdate(job_id) ==
    /\ Cardinality(invocations) < MaxInFlight
    /\ job_id \in DOMAIN job_metadata
    /\ job_metadata[job_id].job_type = "recurring"
    /\ job_metadata[job_id].status # "cancelled"
    /\ ~target_elapsed(job_metadata[job_id].reservation_datetime)
    /\ job_metadata[job_id].check_count < MaxChecks
    /\ job_metadata' = [job_metadata EXCEPT ![job_id].check_count = @ + 1,
                                            ![job_id].status = "running"]
    /\ invocations' = invocations \cup {Writer("check", job_id)}
    /\ UNCHANGED <<now, jobs_file, timers, api_ops, locks, reservations, hist,
                   sagaVars>>

(* _save_jobs: open(self.jobs_file, "w") empties the file, json.dump        *)
(* encodes the table as it is now into the writer's buffer                  *)
SaveOpen(i) ==
    /\ i \in invocations /\ i.pc = "updated"
    /\ jobs_file' = <<>>
    /\ invocations' = Replace(i, [i EXCEPT !.pc = "dumped",
                                          !.buffer = job_metadata])
    /\ UNCHANGED <<now, job_metadata, timers, api_ops, locks, reservations,
                   hist, sagaVars>>

(* _save_jobs: leaving `with` writes the buffer from the start of the file. *)
(* Over what another writer put there since, that is the buffer or, when    *)
(* the buffer is the shorter text, a damaged file.                          *)
SaveClose(i) ==
    /\ i \in invocations /\ i.pc = "dumped"
    /\ jobs_file' \in {i.buffer} \cup
                      (IF jobs_file \in {<<>>, i.buffer} THEN {}
                       ELSE {Unreadable})
    /\ invocations' = invocations \ {i}
    /\ timers' = IF i.func = "cancel_job" THEN remove_job(timers, i.job)
                 ELSE timers
    /\ UNCHANGED <<now, job_metadata, api_ops, locks, reservations, hist,
                   sagaVars>>

PersistNext ==
    \/ \E job_id \in DOMAIN job_metadata : CancelUpdate(job_id)
    \/ \E job_id \in DOMAIN job_metadata : ExecUpdate(job_id)
    \/ \E job_id \in DOMAIN job_metadata : CheckUpdate(job_id)
    \/ \E i \in invocations : SaveOpen(i)
    \/ \E i \in invocations : SaveClose(i)

PersistSpec == PersistInit /\ [][PersistNext]_vars

-----------------------------------------------------------------------------
(* SessionManager: the table of locks under concurrent get_lock calls.  In
   this specification `locks` is the manager (_locks as a function from
   email to the lock stored for it, 0 for none; the holder of _global_lock;
   the number of Lock objects constructed so far), `invocations` holds the
   get_lock calls in progress and `hist` the (email, lock) pairs returned. *)

MaxCallers == 3      \* threads calling get_lock
LockEmails == {"a", "b"}
Callers == 1..MaxCallers

SessionInit ==
    /\ now = 0
    /\ job_metadata = <<>>
    /\ jobs_file = <<>>
    /\ timers = {}
    /\ invocations = {}
    /\ api_ops = {}
    /\ locks = [_locks |-> [e \in LockEmails |-> 0], _global_lock |-> 0,
                constructed |-> 0]
    /\ reservations = [e \in Emails |-> {}]
    /\ hist = {}
    /\ sg_pc = "off"
    /\ sg_in = [hours |-> 1, num_courts |-> 1, taken |-> {}, pre |-> {},
                auth |-> TRUE, list_ok |-> TRUE, cancel_fail |-> {}]
    /\ sg_out = NoSagaOutput

sessionRest ==
    <<now, job_metadata, jobs_file, timers, api_ops, reservations, sagaVars>>

Move(i, pc) == (invocations \ {i}) \cup {[i EXCEPT !.pc = pc]}

(* a thread calls get_lock(email) *)
GetLockCall(c, email) ==
    /\ \A i \in invocations : i.inst # c
    /\ invocations' = invocations \cup
           {[inst |-> c, email |-> email, pc |-> "enter"]}
    /\ UNCHANGED <<locks, hist, sessionRest>>

(* mutant: the table is read and written without _global_lock *)
GetLockEnter_unlocked(i) ==
    /\ i \in invocations /\ i.pc = "enter"
    /\ invocations' = Move(i, "check")
    /\ UNCHANGED <<locks, hist, sessionRest>>

(* with self._global_lock: *)
GetLockEnter(i) ==
    /\ i \in invocations /\ i.pc = "enter"
    /\ locks._global_lock = 0
    /\ locks' = [locks EXCEPT !._global_lock = i.inst]
    /\ invocations' = Move(i, "check")
    /\ UNCHANGED <<hist, sessionRest>>

(* if email not in self._locks: *)
GetLockCheck(i) ==
    /\ i \in invocations /\ i.pc = "check"
    /\ invocations' =
          Move(i, IF locks._locks[i.email] = 0 THEN "create" ELSE "return")
    /\ UNCHANGED <<locks, hist, sessionRest>>

(* self._locks[email] = threading.Lock() *)
GetLockCreate(i) ==
    /\ i \in invocations /\ i.pc = "create"
    /\ locks' = [locks EXCEPT !.constructed = @ + 1,
                              !._locks[i.email] = locks.constructed + 1]
    /\ invocations' = Move(i, "return")
    /\ UNCHANGED <<hist, sessionRest>>

(* return self._locks[email], leaving the with block *)
GetLockReturn(i) ==
    /\ i \in invocations /\ i.pc = "return"
    /\ hist' = hist \cup {<<i.email, locks._locks[i.email]>>}
    /\ locks' = [locks EXCEPT
                   !._global_lock = IF @ = i.inst THEN 0 ELSE @]
    /\ invocations' = invocations \ {i}
    /\ UNCHANGED sessionRest

SessionNext ==
    \/ \E c \in Callers, email \in LockEmails : GetLockCall(c, email)
    \/ \E i \in invocations : GetLockEnter(i)
    \/ \E i \in invocations : GetLockCheck(i)
    \/ \E i \in invocations : GetLockCreate(i)
    \/ \E i \in invocations : GetLockReturn(i)

SessionSpec == SessionInit /\ [][SessionNext]_vars

-----------------------------------------------------------------------------
(* Properties of the saga (checked under SagaSpec)                         *)

SagaDone == sg_pc = "done"

(* every list and every cancel call of the compensation pass succeeds *)
CompensationCallsSucceed == sg_in.list_ok /\ sg_in.cancel_fail = {}

SagaNew == sg_out.backend.mine \ sg_in.pre

PlanSlots == {<<r.datetime, r.court>> : r \in SeqToSet(sg_out.results)}

(* C1: all-or-nothing.  After a call that ends in overall failure, with    *)
(* every list and cancel call succeeding, the owner's reservation list     *)
(* holds no reservation that was absent before the call.                   *)
C1_AllOrNothing ==
    (SagaDone /\ CompensationCallsSucceed /\ ~all_success(sg_out.results))
        => sg_out.backend.mine \subseteq sg_in.pre

(* C2: exact accounting on success.  After a successful N-hour, K-court    *)
(* call, with every list and cancel call succeeding, the reservations new  *)
(* to the owner's list are exactly the N*K (timestamp, court) pairs of the *)
(* returned plan, and nothing that was there before has gone.              *)
C2_ExactAccounting ==
    (SagaDone /\ CompensationCallsSucceed /\ all_success(sg_out.results))
        => /\ SagaNew = PlanSlots
           /\ Cardinality(SagaNew) = sg_in.hours * sg_in.num_courts
           /\ sg_in.pre \subseteq sg_out.backend.mine

(* A successful 2-hour, 2-court call whose abandoned attempts booked       *)
(* courts that the compensation pass then cancelled.                       *)
C2_Witness ==
    /\ SagaDone /\ CompensationCallsSucceed /\ all_success(sg_out.results)
    /\ sg_in.hours = 2 /\ sg_in.num_courts = 2
    /\ Cardinality(sg_out.cancelled) >= 2

(* the subsets of K courts in the order the claim states, K = 1..4 *)
CombinationOrder ==
    << << <<1>>, <<2>>, <<3>>, <<4>> >>,
       << <<1, 2>>, <<2, 3>>, <<3, 4>>, <<1, 3>>, <<1, 4>>, <<2, 4>> >>,
       << <<1, 2, 3>>, <<2, 3, 4>>, <<1, 2, 4>>, <<1, 3, 4>> >>,
       << <<1, 2, 3, 4>> >> >>

(* the booking requests the call sent for the hour starting at dt *)
CallsAt(dt) == SelectSeq(sg_out.calls, LAMBDA c : c[1] = dt)

(* nobody else leaves a court free in the first hour *)
FirstHourFull == \A c \in Courts : <<SagaStart, c>> \in sg_in.taken

(* C12: combination order.  For every K in 1..4 the K-subsets are tried     *)
(* with the subsets of consecutive courts first, ascending by lowest court, *)
(* then the others in ascending order; for K = 2 that is (1,2), (2,3),      *)
(* (3,4), (1,3), (1,4), (2,4).  When no court is free in the first hour the *)
(* requests sent are the first court of each subset, in that order.         *)
C12_CombinationOrder ==
    SagaDone =>
      /\ \A K \in Courts : sorted_combinations(K) = CombinationOrder[K]
      /\ (sg_in.auth /\ FirstHourFull) =>
            sg_out.calls =
              [i \in 1..Len(CombinationOrder[sg_in.num_courts]) |->
                  <<SagaStart, CombinationOrder[sg_in.num_courts][i][1]>>]

(* A 2-court call that went through all six pairs, in the stated order.     *)
C12_Witness ==
    /\ SagaDone /\ sg_in.num_courts = 2 /\ sg_in.auth /\ FirstHourFull
    /\ sg_out.calls = << <<SagaStart, 1>>, <<SagaStart, 2>>, <<SagaStart, 3>>,
                         <<SagaStart, 1>>, <<SagaStart, 1>>, <<SagaStart, 2>> >>

(* the backend the call started on, and the subset the first hour is booked *)
(* on (the empty tuple when the first hour cannot be booked)                *)
SagaBackend ==
    Backend(sg_in.taken, sg_in.pre, sg_in.auth, sg_in.list_ok, sg_in.cancel_fail)

FirstHourCourts ==
    try_combinations(SagaBackend, SagaStart, sorted_combinations(sg_in.num_courts),
                     1).last_used_courts

SecondHourFree(c) == <<SagaStart + HOUR, c>> \notin sg_in.taken \cup sg_in.pre

(* how many courts of S, in order, are requested in the second hour: up to  *)
(* and including the first that is not free                                 *)
PreferredRequests(S) ==
    IF \A i \in 1..Len(S) : SecondHourFree(S[i]) THEN Len(S)
    ELSE CHOOSE n \in 1..Len(S) :
            /\ ~SecondHourFree(S[n])
            /\ \A i \in 1..(n - 1) : SecondHourFree(S[i])

(* C13: continuity heuristic.  After the first hour is booked on subset S,  *)
(* the first requests for the next hour target the courts of S, in order,   *)
(* before any other subset; when all of S is free the hour stays on S, and  *)
(* otherwise the ordered enumeration follows and the hour is booked on the  *)
(* subset the plan returns (for K = 1, the lowest free court).  With       *)
(* N = 2, K = 1, court 1 free at 10:00 but taken at 11:00 and court 2 free *)
(* at 11:00, the accepted set is {(10:00, 1), (11:00, 2)}.                 *)
C13_ContinuityHeuristic ==
    (SagaDone /\ sg_in.auth /\ sg_in.hours = 2 /\ FirstHourCourts # <<>>) =>
      LET S == FirstHourCourts
          second == CallsAt(SagaStart + HOUR)
          n == PreferredRequests(S)
      IN  /\ Len(second) >= n
          /\ \A i \in 1..n : second[i] = <<SagaStart + HOUR, S[i]>>
          /\ (\A i \in 1..Len(S) : SecondHourFree(S[i])) =>
                /\ Len(second) = Len(S)
                /\ all_success(sg_out.results)
                /\ {x \in PlanSlots : x[1] = SagaStart + HOUR} =
                      {<<SagaStart + HOUR, S[i]>> : i \in 1..Len(S)}
          /\ (~(\A i \in 1..Len(S) : SecondHourFree(S[i]))
                /\ all_success(sg_out.results)) =>
                \E k \in 1..Len(sorted_combinations(sg_in.num_courts)) :
                   {x \in PlanSlots : x[1] = SagaStart + HOUR} =
                      {<<SagaStart + HOUR, sorted_combinations(sg_in.num_courts)[k][i]>> :
                          i \in 1..sg_in.num_courts}
          /\ (sg_in.num_courts = 1 /\ ~SecondHourFree(S[1])
                /\ \E c \in Courts : SecondHourFree(c)) =>
                \E c \in Courts :
                   /\ SecondHourFree(c)
                   /\ \A d \in 1..(c - 1) : ~SecondHourFree(d)
                   /\ <<SagaStart + HOUR, c>> \in PlanSlots
          /\ (sg_in.num_courts = 1 /\ sg_in.pre = {}
                /\ <<SagaStart, 1>> \notin sg_in.taken
                /\ <<SagaStart + HOUR, 1>> \in sg_in.taken
                /\ <<SagaStart + HOUR, 2>> \notin sg_in.taken) =>
                PlanSlots = {<<SagaStart, 1>>, <<SagaStart + HOUR, 2>>}

(* The stated example: court 1 at 10:00, then court 2 at 11:00 after the    *)
(* request for court 1 at 11:00 was refused.                                *)
C13_Witness ==
    /\ SagaDone /\ sg_in.auth /\ sg_in.hours = 2 /\ sg_in.num_courts = 1
    /\ sg_in.pre = {}
    /\ <<SagaStart + HOUR, 1>> \in sg_in.taken
    /\ PlanSlots = {<<SagaStart, 1>>, <<SagaStart + HOUR, 2>>}
    /\ CallsAt(SagaStart + HOUR) =
          << <<SagaStart + HOUR, 1>>, <<SagaStart + HOUR, 1>>,
             <<SagaStart + HOUR, 2>> >>

(* every booking that succeeded during the call is part of the plan *)
CleanRun ==
    /\ all_success(sg_out.results)
    /\ {<<r.datetime, r.court>> : r \in SeqToSet(sg_out.all_created_reservations)}
          \subseteq PlanSlots

(* C14: zero compensation calls on a clean run.  When every single-court    *)
(* booking that succeeded during the call belongs to the accepted plan, the *)
(* call sends no list-reservations request and no cancel request.           *)
C14_NoCompensationOnCleanRun ==
    (SagaDone /\ sg_in.auth /\ CleanRun) =>
        /\ sg_out.list_calls = 0
        /\ sg_out.cancel_calls = {}
        /\ sg_out.cancelled = {}

(* N = 2, K = 1, court 1 free for both hours: the plan is court 1 twice and *)
(* nothing else was requested.                                              *)
C14_Witness ==
    /\ SagaDone /\ sg_in.auth /\ sg_in.hours = 2 /\ sg_in.num_courts = 1
    /\ PlanSlots = {<<SagaStart, 1>>, <<SagaStart + HOUR, 1>>}
    /\ sg_out.calls = << <<SagaStart, 1>>, <<SagaStart + HOUR, 1>> >>
    /\ sg_out.list_calls = 0

(* the slots booked during the call that are not part of the plan *)
AbandonedSlots ==
    {<<r.datetime, r.court>> : r \in SeqToSet(sg_out.all_created_reservations)}
        \ PlanSlots

(* what the same call returns when every list and cancel call succeeds *)
UndisturbedResults ==
    make_continuous_reservations(
        Backend(sg_in.taken, sg_in.pre, sg_in.auth, TRUE, {}),
        SagaStart, sg_in.hours, sg_in.num_courts).results

(* C29: compensation is best-effort.  A cancel call that fails is skipped   *)
(* and the remaining cancellations are still issued; a failing list call or *)
(* cancel call never changes the result the call returns.                   *)
C29_BestEffortCompensation ==
    SagaDone =>
      /\ sg_out.results = UndisturbedResults
      /\ (sg_in.auth /\ all_success(sg_out.results) /\ sg_in.list_ok) =>
            /\ sg_out.cancel_calls = AbandonedSlots
            /\ sg_out.cancelled = AbandonedSlots \ sg_in.cancel_fail
            /\ SagaNew = PlanSlots \cup (AbandonedSlots \cap sg_in.cancel_fail)
      /\ (sg_in.auth /\ all_success(sg_out.results) /\ ~sg_in.list_ok) =>
            /\ sg_out.cancel_calls = {}
            /\ SagaNew = PlanSlots \cup AbandonedSlots

(* A successful call with two abandoned bookings: the cancellation of one   *)
(* failed, the other was cancelled all the same.                            *)
C29_Witness ==
    /\ SagaDone /\ sg_in.auth /\ sg_in.list_ok /\ all_success(sg_out.results)
    /\ sg_out.cancel_calls \ sg_out.cancelled # {}
    /\ sg_out.cancelled # {}

(* the first hour of the call for which the hours loop booked no subset,    *)
(* and the requests sent for hours after it                                 *)
FailedHour == sg_out.results[1].datetime

CallsAfter(dt) == SelectSeq(sg_out.calls, LAMBDA c : c[1] > dt)

(* C30: the saga aborts on the first unbookable hour.  When no court subset *)
(* can be fully booked for some hour h, the call sends no booking request   *)
(* for any later hour and returns a single failed result naming hour h.     *)
C30_AbortsOnFirstUnbookableHour ==
    (SagaDone /\ sg_in.auth /\ ~all_success(sg_out.results)) =>
      /\ Len(sg_out.results) = 1
      /\ ~sg_out.results[1].success
      /\ FailedHour \in {SagaStart + h * HOUR : h \in 0..(sg_in.hours - 1)}
      /\ CallsAfter(FailedHour) = <<>>
      /\ CallsAt(FailedHour) # <<>>
      /\ \A h \in 0..(sg_in.hours - 1) :
            SagaStart + h * HOUR < FailedHour
            => \E r \in SeqToSet(sg_out.all_created_reservations) :
                  r.datetime = SagaStart + h * HOUR

(* A 2-hour call whose first hour has no free court while the second hour   *)
(* has: requests were sent for the first hour only.                         *)
C30_Witness ==
    /\ SagaDone /\ sg_in.auth /\ sg_in.hours = 2 /\ sg_in.num_courts = 1
    /\ FirstHourFull
    /\ \A c \in Courts : <<SagaStart + HOUR, c>> \notin sg_in.taken
    /\ sg_out.results = <<FailureResult(SagaStart, "Could not find available courts")>>
    /\ Len(sg_out.calls) = 4

(* some K-subset of the courts is entirely free when the first hour begins *)
FirstHourHasFreeSubset ==
    \E S \in SUBSET Courts :
        /\ Cardinality(S) = sg_in.num_courts
        /\ \A c \in S : <<SagaStart, c>> \notin sg_in.taken \cup sg_in.pre

(* C36: search completeness per hour.  If some K-subset of the 4 courts is  *)
(* entirely free when the search for the first hour begins, that hour is    *)
(* booked: no booking request is refused for good because an abandoned      *)
(* subset attempt holds a court.                                            *)
C36_SearchCompleteness ==
    (SagaDone /\ sg_in.auth /\ FirstHourHasFreeSubset)
    => sg_out.results #
          <<FailureResult(SagaStart, "Could not find available courts")>>

SagaCreated ==
    {<<r.datetime, r.court>> : r \in SeqToSet(sg_out.all_created_reservations)}

(* C37: compensation is confined to this call's leftovers.  The cancel      *)
(* calls of the compensation pass name only (timestamp, court) pairs booked *)
(* during this call and absent from the accepted plan: never a reservation  *)
(* of the plan, never one the owner held before the call.                   *)
C37_CompensationConfined ==
    SagaDone =>
      /\ sg_out.cancel_calls \subseteq SagaCreated
      /\ sg_out.cancel_calls \cap sg_in.pre = {}
      /\ sg_in.pre \subseteq sg_out.backend.mine
      /\ all_success(sg_out.results) =>
            /\ sg_out.cancel_calls \cap PlanSlots = {}
            /\ PlanSlots \subseteq sg_out.backend.mine

(* The owner held reservations before the call; the call succeeded and      *)
(* cancelled an abandoned booking.                                          *)
C37_Witness ==
    /\ SagaDone /\ sg_in.auth /\ sg_in.pre # {}
    /\ all_success(sg_out.results)
    /\ sg_out.cancelled # {}

(* the results at hour offset h *)
ResultsAt(h) ==
    SelectSeq(sg_out.results, LAMBDA r : r.datetime = SagaStart + h * HOUR)

(* C39: shape of a successful plan.  A fully successful result for N hours  *)
(* and K courts has exactly N*K entries, and for each hour offset h in      *)
(* 0..N-1 exactly K entries at start + h hours, on K distinct courts.       *)
C39_PlanShape ==
    (SagaDone /\ sg_in.auth /\ all_success(sg_out.results))
    => /\ Len(sg_out.results) = sg_in.hours * sg_in.num_courts
       /\ \A h \in 0..(sg_in.hours - 1) :
             /\ Len(ResultsAt(h)) = sg_in.num_courts
             /\ Cardinality({r.court : r \in SeqToSet(ResultsAt(h))})
                   = sg_in.num_courts
             /\ \A r \in SeqToSet(ResultsAt(h)) : r.court \in Courts

(* A successful 2-hour, 2-court call that abandoned a booking on the way.   *)
C39_Witness ==
    /\ SagaDone /\ sg_in.auth /\ all_success(sg_out.results)
    /\ sg_in.hours = 2 /\ sg_in.num_courts = 2
    /\ Len(sg_out.results) = 4
    /\ Len(sg_out.all_created_reservations) > 4

-----------------------------------------------------------------------------
(* Properties of the job store and scheduler (checked under Spec)          *)

Jobs == DOMAIN job_metadata

TimersOf(j) == {t \in timers : t.job = j}

InvocationsOf(j) == {i \in invocations : i.job = j}

(* C3: no double-booking.  At most one saga invocation of any one job ends *)
(* with a fully booked plan, whatever the timer firings, overlapping ticks,*)
(* crashes and recoveries.                                                 *)
C3_NoDoubleBooking ==
    \A j \in Jobs : hist.jobs[j].booked <= 1

(* C4: cancel deregisters the timer.  A job whose status is cancelled has  *)
(* no armed timer, be it the first-run timer, a pending retry timer or a   *)
(* watcher's interval timer.                                               *)
C4_CancelDeregisters ==
    \A j \in Jobs : job_metadata[j].status = "cancelled" => TimersOf(j) = {}

(* C5: advisory cancellation is observed.  An invocation that starts when  *)
(* the status is already cancelled goes on to no backend call.             *)
C5_CancelObserved ==
    \A i \in invocations : i.pc \in {"saga", "finish"} => ~i.saw_cancelled

(* C6: identity lock mutual exclusion.  For one identity at most one       *)
(* booking-attempt-plus-compensation sequence is in progress, counting the *)
(* API requests under the lock and the scheduler callbacks in the saga.    *)
InProgress(email) ==
    Cardinality({op \in api_ops : op.email = email})
        + Cardinality({i \in invocations :
                          i.pc = "saga" /\ job_metadata[i.job].email = email})

C6_MutualExclusion ==
    \A e \in Emails : InProgress(e) <= 1

(* C7: crash-recovery idempotence.  A restart that finds a stored one-time *)
(* record in status retrying with next_retry in the future leaves exactly  *)
(* one armed timer for the job, due at next_retry and carrying the stored  *)
(* retry_count.                                                            *)
C7_RecoveryRearmsRetry ==
    [][hist'.crashes = hist.crashes + 1 =>
         \A j \in DOMAIN jobs_file :
            (/\ jobs_file[j].job_type = "one-time"
             /\ jobs_file[j].status = "retrying"
             /\ jobs_file[j].next_retry > now')
            => /\ Cardinality({t \in timers' : t.job = j}) = 1
               /\ \A t \in timers' :
                     t.job = j => /\ t.next_run = jobs_file[j].next_retry
                                  /\ t.retry_count = jobs_file[j].retry_count]_vars

(* C8: backoff sequence.  The delays a one-time job with max_retries = 6   *)
(* has scheduled so far are the first of 1, 2, 4, 8, 16, 32 minutes in     *)
(* that order, never a 7th; retry n is armed with retry_count n, and the   *)
(* stored retry_count trails the number of retries scheduled by at most 1. *)
BackoffTable == <<1, 2, 4, 8, 16, 32>>

C8_BackoffSequence ==
    \A j \in Jobs :
        (job_metadata[j].job_type = "one-time" /\ job_metadata[j].max_retries = 6)
        => LET d == hist.jobs[j].delays
               rc == job_metadata[j].retry_count
           IN  /\ Len(d) <= Len(BackoffTable)
               /\ \A k \in 1..Len(d) : d[k] = BackoffTable[k]
               /\ rc <= Len(d) /\ Len(d) <= rc + 1
               /\ \A t \in TimersOf(j) :
                     t.suffix > 0 => /\ t.suffix = Len(d)
                                     /\ t.retry_count = Len(d)

(* A job that has scheduled all six retries and failed the last attempt.   *)
C8_Witness ==
    \E j \in Jobs :
        /\ job_metadata[j].job_type = "one-time"
        /\ hist.jobs[j].delays = BackoffTable
        /\ job_metadata[j].status = "failed"

(* C9: retry exhaustion terminates.  A one-time job in status failed has   *)
(* made exactly max_retries + 1 saga attempts, has the failed attempt's    *)
(* results recorded, and has no timer armed and no invocation in flight.   *)
C9_RetryExhaustion ==
    \A j \in Jobs :
        (job_metadata[j].job_type = "one-time" /\ job_metadata[j].status = "failed")
        => /\ hist.jobs[j].attempts = max_retries_of(job_metadata[j]) + 1
           /\ job_metadata[j].retry_count = max_retries_of(job_metadata[j])
           /\ job_metadata[j].results # <<>>
           /\ ~all_success(job_metadata[j].results)
           /\ TimersOf(j) = {}
           /\ InvocationsOf(j) = {}

(* A one-time job that has failed after its seventh attempt.               *)
C9_Witness ==
    \E j \in Jobs :
        /\ job_metadata[j].job_type = "one-time"
        /\ job_metadata[j].status = "failed"
        /\ hist.jobs[j].attempts = 7

(* A watcher tick enters its callback in this step: a queued check         *)
(* invocation leaves the queue while the process stays up.                 *)
TickStarts(i) ==
    /\ i \in invocations /\ i.func = "check" /\ i.pc = "queued"
    /\ i \notin invocations'
    /\ hist'.crashes = hist.crashes

TickMakesNoAttempt(i) ==
    /\ \A x \in invocations' : x.inst # i.inst
    /\ \A t \in timers' : ~(t.job = i.job /\ t.suffix = 0)
    /\ job_metadata'[i.job].check_count = job_metadata[i.job].check_count
    /\ reservations' = reservations
    /\ hist'.jobs = hist.jobs

(* C10 as stated: a watcher tick that starts when the target time has      *)
(* elapsed sets status expired, deregisters the timer and makes no booking *)
(* attempt and no check_count increment.                                   *)
C10_ExpiryAsStated ==
    [][\A i \in invocations :
         (TickStarts(i) /\ now >= job_metadata[i.job].reservation_datetime)
         => /\ job_metadata'[i.job].status = "expired"
            /\ TickMakesNoAttempt(i)]_vars

(* C10 amended: a watcher tick that starts when the target time has        *)
(* elapsed sets status expired unless the job has been cancelled, in which *)
(* case the status stays cancelled; either way it deregisters the timer    *)
(* and makes no booking attempt and no check_count increment.              *)
C10_ExpiryOrdering ==
    [][\A i \in invocations :
         (TickStarts(i) /\ now >= job_metadata[i.job].reservation_datetime)
         => /\ job_metadata'[i.job].status =
                  IF job_metadata[i.job].status = "cancelled"
                  THEN "cancelled" ELSE "expired"
            /\ TickMakesNoAttempt(i)]_vars

(* A watcher that made checks before its target and was then expired by a  *)
(* tick (no restart took place), with no timer left.                       *)
C10_Witness ==
    \E j \in Jobs :
        /\ job_metadata[j].job_type = "recurring"
        /\ job_metadata[j].status = "expired"
        /\ job_metadata[j].check_count >= 1
        /\ hist.crashes = 0
        /\ now >= job_metadata[j].reservation_datetime
        /\ TimersOf(j) = {}

TerminalStatuses == {"completed", "failed", "expired", "cancelled"}

(* C15: terminal statuses stay out of scheduled.  No step takes a job whose *)
(* status is completed, failed, expired or cancelled to status scheduled.   *)
C15_TerminalNeverScheduled ==
    [][\A j \in DOMAIN job_metadata :
          job_metadata[j].status \in TerminalStatuses
          => job_metadata'[j].status # "scheduled"]_vars

(* the status changes of the stated machine *)
StatedTransitions ==
    {<<"scheduled", "running">>, <<"retrying", "running">>}
      \cup {<<"running", b>> : b \in {"completed", "failed", "retrying",
                                      "error", "expired", "cancelled"}}
      \cup {<<a, b>> : a \in {"scheduled", "running", "retrying", "error"},
                       b \in {"cancelled", "expired"}}

(* C16: status transitions follow the stated machine.  Every status change  *)
(* is scheduled->running, running->{completed, failed, retrying, error,     *)
(* expired, cancelled}, retrying->running, or non-terminal->{cancelled,     *)
(* expired}; in particular none leaves completed, failed, expired or        *)
(* cancelled.                                                               *)
C16_StatedTransitions ==
    [][\A j \in DOMAIN job_metadata :
          \/ job_metadata'[j].status = job_metadata[j].status
          \/ <<job_metadata[j].status, job_metadata'[j].status>>
                \in StatedTransitions]_vars

(* C17: a job whose status is completed has a stored result set that is not *)
(* empty and in which every reservation attempt has success = true.         *)
C17_CompletedResults ==
    \A j \in Jobs :
        job_metadata[j].status = "completed"
        => /\ Len(job_metadata[j].results) >= 1
           /\ \A k \in 1..Len(job_metadata[j].results) :
                 job_metadata[j].results[k].success = TRUE
           /\ jobs_file[j].results = job_metadata[j].results

(* A completed job with the one booking of its plan stored.                 *)
C17_Witness ==
    \E j \in Jobs :
        /\ job_metadata[j].status = "completed"
        /\ Len(job_metadata[j].results) = 1
        /\ job_metadata[j].results[1].success
        /\ <<job_metadata[j].results[1].datetime, job_metadata[j].results[1].court>>
              \in reservations[job_metadata[j].email]

(* the saga returned because the backend rejected the credentials *)
AuthRejected(results) ==
    Len(results) = 1 /\ results[1].message = "Authentication failed"

(* a one-time attempt whose saga was rejected handles its results in this   *)
(* step                                                                     *)
RejectedAttemptEnds(i) ==
    /\ i \in invocations /\ i.func = "execute" /\ i.pc = "finish"
    /\ ~i.raised /\ AuthRejected(i.results)
    /\ i \notin invocations'
    /\ hist'.crashes = hist.crashes

(* a watch request whose immediate attempt was rejected ends in this step   *)
RejectedWatchEnds(op) ==
    /\ op \in api_ops /\ op.kind = "watch" /\ op \notin api_ops'
    /\ hist'.crashes = hist.crashes
    /\ now < op.reservation_datetime
    /\ reservations' = reservations

(* C18: authentication failure is terminal.  When the backend rejects the   *)
(* credentials during a one-time job attempt, the job is not left retrying  *)
(* and no retry timer is armed; when it rejects them during a watch         *)
(* request, no watcher job and no timer is created.                         *)
C18_AuthFailureTerminal ==
    [][/\ \A i \in invocations :
             RejectedAttemptEnds(i)
             => /\ job_metadata'[i.job].status \notin {"retrying", "scheduled"}
                /\ {t \in timers' : t.job = i.job} \subseteq TimersOf(i.job)
       /\ \A op \in api_ops :
             RejectedWatchEnds(op)
             => /\ DOMAIN job_metadata' = DOMAIN job_metadata
                /\ timers' = timers]_vars

(* the invocations of a job whose callback has started and not returned *)
RunningInvocationsOf(j) == {i \in InvocationsOf(j) : i.pc # "queued"}

(* C22: at most one running invocation per job.  A tick of a recurring job  *)
(* that becomes due while the previous tick's saga is still in flight is    *)
(* skipped or queued, so two invocations of one job never run concurrently. *)
C22_OneRunningInvocation ==
    \A j \in Jobs :
        job_metadata[j].job_type = "recurring"
        => Cardinality(RunningInvocationsOf(j)) <= 1

(* a watcher tick that ran its saga handles the results in this step, the   *)
(* job having been neither cancelled nor expired in the meantime            *)
TickEnds(i) ==
    /\ i \in invocations /\ i.func = "check" /\ i.pc = "finish"
    /\ i \notin invocations'
    /\ hist'.crashes = hist.crashes
    /\ job_metadata[i.job].status \notin {"cancelled", "expired"}

(* a watcher tick passes the cancellation and expiry tests in this step and *)
(* goes on to run the saga                                                  *)
TickRuns(i) ==
    /\ i \in invocations /\ i.func = "check" /\ i.pc = "queued"
    /\ \E x \in invocations' : x.inst = i.inst /\ x.pc = "saga"

IntervalTimerArmed(j) ==
    \E t \in timers' : t.job = j /\ t.trigger = "interval"

(* C23: watcher tick outcome.  A fully successful tick sets status          *)
(* completed and deregisters the timer, and no tick of a completed job runs *)
(* afterwards; a failed tick (or an exception) leaves status scheduled with *)
(* the 30-minute timer still armed.                                         *)
C23_WatcherTickOutcome ==
    [][\A i \in invocations :
         /\ (TickEnds(i) /\ ~i.raised /\ all_success(i.results))
            => /\ job_metadata'[i.job].status = "completed"
               /\ {t \in timers' : t.job = i.job} = {}
         /\ (TickEnds(i) /\ (i.raised \/ ~all_success(i.results)))
            => /\ job_metadata'[i.job].status = "scheduled"
               /\ IntervalTimerArmed(i.job)
         /\ TickRuns(i) => job_metadata[i.job].status # "completed"]_vars

(* a lock-holding operation of this identity ended in this step *)
OpEnds(op) == op \in api_ops /\ op \notin api_ops'

(* C32: the lock is released on every path.  Every step in which an API     *)
(* operation that holds its identity's lock ends (on success, on failure,   *)
(* on the early returns "job scheduled" and "target already passed", and    *)
(* when an exception leaves the block) leaves that lock free, and a held    *)
(* lock always becomes free again, so that a later operation of the same    *)
(* identity is not blocked forever.                                         *)
C32_LockReleased ==
    /\ [][\A op \in api_ops : OpEnds(op) => op.email \notin locks'.held]_vars
    /\ \A e \in Emails : (e \in locks.held) ~> (e \notin locks.held)

(* an operation of some identity took the lock and has ended, with a job    *)
(* scheduled on the way, and the lock is free for the next one              *)
C32_Witness ==
    \E e \in Emails :
       /\ e \in locks.created
       /\ e \notin locks.held
       /\ \A op \in api_ops : op.email # e
       /\ \E j \in DOMAIN job_metadata : job_metadata[j].email = e

-----------------------------------------------------------------------------
(* Properties of the job store across a start (checked under StoreSpec)     *)

(* this step creates job j *)
Created(j) == j \in DOMAIN job_metadata' /\ j \notin DOMAIN job_metadata

(* C11: horizon arithmetic.  For every deferred one-time job created by     *)
(* schedule_reservation, the run_time it stores (in memory and in the file) *)
(* and the due instant of the timer it arms both equal its                  *)
(* reservation_datetime minus 21600 minutes exactly.                        *)
C11_HorizonArithmetic ==
    [][sg_pc = "up" =>
         \A j \in DOMAIN job_metadata' :
            (Created(j) /\ job_metadata'[j].job_type = "one-time")
            => /\ job_metadata'[j].run_time =
                     job_metadata'[j].reservation_datetime - 21600
               /\ jobs_file'[j].run_time =
                     job_metadata'[j].reservation_datetime - 21600
               /\ \E t \in timers' : t.job = j
               /\ \A t \in timers' :
                     t.job = j => t.next_run =
                        job_metadata'[j].reservation_datetime - 21600]_vars

(* A job deferred by a request made at minute 45 for a target of two        *)
(* horizons and 45 minutes: its timer is due one horizon and 45 minutes in. *)
C11_Witness ==
    /\ sg_pc = "up" /\ now = 45
    /\ \E j \in DOMAIN job_metadata :
          /\ job_metadata[j].job_type = "one-time"
          /\ job_metadata[j].reservation_datetime = 43245
          /\ job_metadata[j].status = "scheduled"
          /\ \E t \in timers : t.job = j /\ t.next_run = 21645

(* the process starts in this step *)
Starts == sg_pc = "down" /\ sg_pc' = "up"

(* the instant at which a stored one-time record was next due to run *)
StoredDue(md) == IF md.next_retry # NONE THEN md.next_retry ELSE md.run_time

(* C19: recovery of past-due one-time jobs.  At startup every one-time      *)
(* record in status scheduled, running or retrying whose stored due time    *)
(* has elapsed while its target has not is fired at once; one whose due     *)
(* time is in the future gets one timer at that instant.                    *)
C19_RecoveryFiresPastDue ==
    [][Starts =>
         \A j \in DOMAIN jobs_file :
            (/\ jobs_file[j].job_type = "one-time"
             /\ jobs_file[j].status \in {"scheduled", "running", "retrying"}
             /\ now < jobs_file[j].reservation_datetime)
            => IF StoredDue(jobs_file[j]) <= now
               THEN \/ \E t \in timers' : t.job = j /\ t.next_run <= now
                    \/ \E i \in invocations' : i.job = j
               ELSE /\ \E t \in timers' : t.job = j
                    /\ \A t \in timers' :
                          t.job = j => t.next_run = StoredDue(jobs_file[j])]_vars

(* C20: recovery expires elapsed targets.  At startup every record in       *)
(* status scheduled, running or retrying, one-time or recurring, whose      *)
(* target has elapsed is set to expired in memory and in the file and gets  *)
(* no timer.                                                                *)
C20_RecoveryExpires ==
    [][Starts =>
         \A j \in DOMAIN jobs_file :
            (/\ jobs_file[j].status \in {"scheduled", "running", "retrying"}
             /\ now >= jobs_file[j].reservation_datetime)
            => /\ job_metadata'[j].status = "expired"
               /\ jobs_file'[j].status = "expired"
               /\ \A t \in timers' : t.job # j]_vars


(* C28: deferred job only beyond the horizon.  A booking request creates a  *)
(* deferred one-time job only when its target lies further than 21600       *)
(* minutes in the future, so the run_time of a created job is never earlier *)
(* than the instant of its creation.                                        *)
C28_DeferredOnlyBeyondHorizon ==
    [][sg_pc = "up" =>
         \A j \in DOMAIN job_metadata' :
            (Created(j) /\ job_metadata'[j].job_type = "one-time")
            => /\ job_metadata'[j].reservation_datetime - now
                     > MAX_RESERVATION_MINUTES
               /\ job_metadata'[j].run_time >= now]_vars

(* a view is returned in this step *)
ViewReturned == sg_pc = "up" /\ sg_out' # sg_out

WithoutPassword(job) == [k \in DOMAIN job \ {"password"} |-> job[k]]

(* C24: job views never expose credentials.  For a job in any status, the   *)
(* value returned by get_job_status and every element returned by           *)
(* get_jobs_by_email has no password field and is otherwise the stored      *)
(* record; building the view leaves the stored record, password included,   *)
(* as it was.                                                               *)
C24_ViewsHideCredentials ==
    [][ViewReturned =>
         /\ \A n \in DOMAIN sg_out'.views :
               /\ "password" \notin DOMAIN sg_out'.views[n]
               /\ \E j \in DOMAIN job_metadata :
                     sg_out'.views[n] = WithoutPassword(job_metadata[j])
         /\ job_metadata' = job_metadata
         /\ \A j \in DOMAIN job_metadata' :
               /\ "password" \in DOMAIN job_metadata'[j]
               /\ job_metadata'[j].password = "pw"]_vars

(* A view of a completed job was returned; the stored record still holds    *)
(* the password.                                                            *)
C24_Witness ==
    /\ sg_pc = "up" /\ "views" \in DOMAIN sg_out /\ Len(sg_out.views) = 1
    /\ sg_out.views[1].status = "completed"
    /\ "password" \notin DOMAIN sg_out.views[1]
    /\ Len(job_metadata) = 1 /\ job_metadata[1].password = "pw"

(* the constructor runs _load_jobs in this step *)
Loads == sg_pc = "down" /\ sg_pc' # "down"

(* a stored record that cannot be reconstructed: a key is missing or a      *)
(* datetime does not parse                                                  *)
Unreconstructible(md) ==
    \/ md.reservation_datetime = NONE
    \/ md.unparsable # {}
    \/ (md.run_time = NONE /\ md.next_retry = NONE)
    \/ md.email = ""
    \/ md.hours = NONE

(* C21: recovery isolates bad records.  At startup a stored non-terminal    *)
(* record that cannot be reconstructed is marked error, in memory and in    *)
(* the file; every other non-terminal record whose next run is still ahead  *)
(* gets its timer; and the startup does not abort.                          *)
C21_RecoveryIsolatesBadRecords ==
    [][Loads =>
         /\ sg_pc' = "up"
         /\ \A j \in DOMAIN jobs_file :
               jobs_file[j].status \in ActiveStatuses
               => IF Unreconstructible(jobs_file[j])
                  THEN /\ job_metadata'[j].status = "error"
                       /\ jobs_file'[j].status = "error"
                  ELSE /\ job_metadata'[j].status # "error"
                       /\ (/\ jobs_file[j].job_type = "recurring"
                           /\ now < jobs_file[j].reservation_datetime)
                          => \E t \in timers' : t.job = j]_vars

-----------------------------------------------------------------------------
(* Properties of the search routes (checked under SearchSpec)               *)

(* a POST /continuous request with a window has run its search *)
WindowSearched ==
    /\ sg_pc = "done" /\ sg_in.kind = "continuous" /\ sg_in.end_time # NONE
    /\ sg_out.outcome = "attempted"

(* the offsets of the window at which the requested hours still end by the  *)
(* end of the window                                                        *)
NumOffsets ==
    ((sg_in.end_time - sg_in.start_time - sg_in.hours * HOUR) \div 30) + 1

Offset(n) == sg_in.date + sg_in.start_time + (n - 1) * 30

(* every result of a saga is a booking *)
FullyBooked(results) ==
    results # <<>> /\ \A n \in DOMAIN results : results[n].success

LastTried == sg_out.tried[Len(sg_out.tried)]

(* C25: time-window search.  The full N-hour, K-court saga is attempted at  *)
(* windowStart, windowStart + 30 min, ... in increasing order, at every     *)
(* offset whose N hours still end by windowEnd and at no other; the search  *)
(* stops at the first fully successful attempt and makes none after it.     *)
C25_TimeWindowSearch ==
    WindowSearched =>
      /\ Len(sg_out.tried) \in 1..NumOffsets
      /\ \A n \in 1..Len(sg_out.tried) : sg_out.tried[n].slot = Offset(n)
      /\ \A n \in 1..(Len(sg_out.tried) - 1) :
            ~FullyBooked(sg_out.tried[n].results)
      /\ Len(sg_out.tried) < NumOffsets => FullyBooked(LastTried.results)
      /\ IF FullyBooked(LastTried.results)
         THEN /\ sg_out.results = LastTried.results
              /\ Len(sg_out.results) = sg_in.hours * sg_in.num_courts
              /\ \A n \in DOMAIN sg_out.results :
                    /\ sg_out.results[n].datetime >= LastTried.slot
                    /\ sg_out.results[n].datetime
                          < LastTried.slot + sg_in.hours * HOUR
         ELSE sg_out.results = <<>>

(* A window of five offsets: the first two attempts failed, the third       *)
(* booked everything and no fourth was made.                                *)
C25_Witness ==
    /\ WindowSearched /\ NumOffsets = 5 /\ sg_in.num_courts = 2
    /\ Len(sg_out.tried) = 3 /\ FullyBooked(LastTried.results)

(* the window is exhausted: no attempt in it booked everything *)
WindowExhausted ==
    /\ WindowSearched
    /\ \A n \in DOMAIN sg_out.tried : ~FullyBooked(sg_out.tried[n].results)

(* C26: exhausted window is a failure.  When no offset of the window yields *)
(* a fully successful saga, the response reports failure: the error flag is *)
(* set and no reservation is counted as successful.                         *)
C26_ExhaustedWindowFails ==
    WindowExhausted =>
      /\ sg_out.response.error
      /\ sg_out.response.successful = 0

(* a POST /find-slot request without a date has returned *)
DaySearched ==
    sg_pc = "done" /\ sg_in.kind = "find-slot" /\ sg_in.date = NONE

(* today at the requested time, as of the arrival of the request *)
TodayAtStart == DayOf(sg_out.requested_at) + sg_in.start_time

(* C27: cross-day search is bounded.  Without a date the search anchors at  *)
(* today at the requested time, or tomorrow if that moment has passed; each *)
(* further attempt is exactly one day later at the same time of day; the    *)
(* search stops at the first fully successful day, makes at most 15         *)
(* day-attempts, and then reports failure.                                  *)
C27_CrossDaySearchBounded ==
    DaySearched =>
      /\ Len(sg_out.days) \in 1..MAX_ATTEMPTS
      /\ sg_out.days[1].day =
            IF TodayAtStart < sg_out.requested_at THEN TodayAtStart + DAY
            ELSE TodayAtStart
      /\ \A n \in 2..Len(sg_out.days) :
            sg_out.days[n].day = sg_out.days[n - 1].day + DAY
      /\ \A n \in 1..(Len(sg_out.days) - 1) :
            ~FullyBooked(sg_out.days[n].results)
      /\ IF FullyBooked(sg_out.days[Len(sg_out.days)].results)
         THEN ~sg_out.response.error /\ sg_out.response.successful > 0
         ELSE /\ Len(sg_out.days) = MAX_ATTEMPTS
              /\ sg_out.response.error
              /\ sg_out.response.successful = 0
      /\ job_metadata = <<>>

-----------------------------------------------------------------------------
(* Properties of the job table and its file (checked under PersistSpec)     *)

(* no step of the job store is under way *)
StoreQuiet == invocations = {}

-----------------------------------------------------------------------------
(* Properties of the lock table (checked under SessionSpec)                 *)

(* C33: one lock per identity.  All get_lock calls with the same email      *)
(* return the same lock, calls with different emails return different       *)
(* locks, and a lock stored for an email is never removed or replaced.      *)
C33_OneLockPerIdentity ==
    /\ [](\A r1 \in hist, r2 \in hist : (r1[1] = r2[1]) <=> (r1[2] = r2[2]))
    /\ [](\A r \in hist : r[2] # 0 /\ locks._locks[r[1]] = r[2])
    /\ [][\A e \in LockEmails :
            locks._locks[e] # 0 => locks'._locks[e] = locks._locks[e]]_vars

(* both emails have had their lock returned while a call for an email that  *)
(* already has one is inside get_lock and another call waits to enter       *)
C33_Witness ==
    /\ \A e \in LockEmails : \E r \in hist : r[1] = e
    /\ \E i \in invocations : i.pc = "return" /\ \E r \in hist : r[1] = i.email
    /\ \E i \in invocations : i.pc = "enter"

-----------------------------------------------------------------------------
(* Further properties of the job store and scheduler (checked under Spec)   *)

(* a watch request ends in this step, the process staying up *)
WatchEnds(op) ==
    /\ op \in api_ops /\ op.kind = "watch" /\ op \notin api_ops'
    /\ hist'.crashes = hist.crashes

(* this step books the whole plan of op: num_courts new reservations of the *)
(* owner at each of its hours                                               *)
WatchBooked(op) ==
    \A h \in 0..(op.hours - 1) :
       Cardinality({x \in reservations'[op.email] \ reservations[op.email] :
                       x[1] = op.reservation_datetime + h * HOUR})
          = op.num_courts

(* C34: watcher arming condition.  A watcher job is created only by a watch *)
(* request whose target time has not elapsed and whose immediate attempt    *)
(* did not fully succeed; a watch request whose target has elapsed books    *)
(* nothing and creates no job, and one whose immediate attempt succeeds     *)
(* creates no job.                                                          *)
C34_WatcherArming ==
    [][/\ \A j \in DOMAIN job_metadata' :
             (Created(j) /\ job_metadata'[j].job_type = "recurring")
             => \E op \in api_ops :
                   /\ WatchEnds(op)
                   /\ now < op.reservation_datetime
                   /\ ~WatchBooked(op)
                   /\ job_metadata'[j].reservation_datetime
                         = op.reservation_datetime
       /\ \A op \in api_ops :
             (WatchEnds(op) /\ now >= op.reservation_datetime)
             => /\ reservations' = reservations
                /\ job_metadata' = job_metadata
                /\ timers' = timers
       /\ \A op \in api_ops :
             (WatchEnds(op) /\ WatchBooked(op))
             => /\ job_metadata' = job_metadata
                /\ timers' = timers]_vars

(* a watcher is stored and armed for a target that has not elapsed, while   *)
(* the owner holds no reservation at that target                            *)
C34_Witness ==
    \E j \in DOMAIN job_metadata :
       /\ job_metadata[j].job_type = "recurring"
       /\ job_metadata[j].status = "scheduled"
       /\ job_metadata[j].check_count = 0
       /\ now < job_metadata[j].reservation_datetime
       /\ \A x \in reservations[job_metadata[j].email] :
              x[1] # job_metadata[j].reservation_datetime
       /\ \E t \in timers : t.job = j

(* C35: no orphaned jobs.  While the process runs, every job record whose   *)
(* status is scheduled, running or retrying has an armed timer or an        *)
(* invocation in flight.                                                    *)
C35_NoOrphanedJobs ==
    \A j \in Jobs :
        job_metadata[j].status \in ActiveStatuses
        => (TimersOf(j) # {} \/ InvocationsOf(j) # {})

(* C38: at most one armed timer per job.  Across scheduling, retries (armed *)
(* under a suffixed id), watcher ticks and recovery at startup, each job    *)
(* has at most one armed timer, and one step of the clock never starts two  *)
(* invocations of the same job.                                             *)
C38_OneTimerPerJob ==
    /\ [](\A j \in Jobs : Cardinality(TimersOf(j)) <= 1)
    /\ [][\A j \in Jobs :
            Cardinality(InvocationsOf(j)' \ InvocationsOf(j)) <= 1]_vars

(* a job that is retrying has its retry timer, armed under a suffixed id,   *)
(* as its only timer                                                        *)
C38_Witness ==
    \E j \in Jobs :
       /\ job_metadata[j].status = "retrying"
       /\ \E t \in timers : TimersOf(j) = {t} /\ t.suffix # 0

OneTimeJobs == {j \in Jobs : job_metadata[j].job_type = "one-time"}

(* C40: retry counter bounds.  For every one-time job, in memory and in the *)
(* file, 0 <= retry_count <= max_retries, and the stored retry_count never  *)
(* decreases from one step to the next, a restart and recovery included.    *)
C40_RetryCounterBounds ==
    /\ [](\A j \in OneTimeJobs :
            /\ 0 <= job_metadata[j].retry_count
            /\ job_metadata[j].retry_count <= job_metadata[j].max_retries
            /\ j \in DOMAIN jobs_file
               => /\ 0 <= jobs_file[j].retry_count
                  /\ jobs_file[j].retry_count <= jobs_file[j].max_retries)
    /\ [][\A j \in OneTimeJobs :
            /\ job_metadata'[j].retry_count >= job_metadata[j].retry_count
            /\ j \in DOMAIN jobs_file
               => jobs_file'[j].retry_count >= jobs_file[j].retry_count]_vars

(* a job has used its last retry: the attempt numbered max_retries has      *)
(* ended in failure                                                         *)
C40_Witness ==
    \E j \in OneTimeJobs :
       /\ job_metadata[j].status = "failed"
       /\ job_metadata[j].retry_count = job_metadata[j].max_retries
       /\ jobs_file[j].retry_count = job_metadata[j].max_retries

=============================================================================
